---- MODULE Spec2Model ----
(***************************************************************************)
(* Plot Planner: the zustand store (useAppStore) with its cascading        *)
(* recomputation of derived state, and the pure calculators it uses.       *)
(* The exported calculators of the utilities (calculateEMI, calculateFOIR,  *)
(* calculateMaxLoanAmount, calculateRiskLevel) are also called on their own: *)
(* `call` holds such a call and, once it returned, its result.              *)
(*                                                                         *)
(* Numbers.  A JavaScript number is modelled by its exact real value:      *)
(*   Num : a reduced fraction [n, d] with d > 0, extended by the IEEE      *)
(*         specials NaN = [0,0], +Infinity = [1,0], -Infinity = [-1,0];    *)
(*   Dec : an exact decimal of any size (sign, base-100 digits, scale),    *)
(*         used where Math.pow compounds over the 10-year horizon and the  *)
(*         values leave the checker's integer range.                       *)
(* Floating-point rounding error is not modelled.                          *)
(*                                                                         *)
(* A plot keeps the fields the store computes with; its name, location,    *)
(* status, fees and timestamps, and the colours of the charts, enter no    *)
(* computation and are left out.  A plot may carry the construction data   *)
(* of types/index.ts.  A date is the integer of its getTime().             *)
(***************************************************************************)
EXTENDS Integers, Sequences, FiniteSets, TLC

----------------------------------------------------------------------------
(* JavaScript numbers as extended rationals *)

Abs(i) == IF i < 0 THEN -i ELSE i

Sign(i) == IF i < 0 THEN -1 ELSE IF i > 0 THEN 1 ELSE 0

RECURSIVE GCD(_, _)
GCD(a, b) == IF b = 0 THEN a ELSE GCD(b, a % b)

\* the reduced fraction n/d; d = 0 gives NaN (n = 0) or a signed Infinity
Norm(n, d) ==
  IF d = 0 THEN [n |-> Sign(n), d |-> 0]
  ELSE LET g == GCD(Abs(n), Abs(d))
           s == IF d < 0 THEN -1 ELSE 1
       IN [n |-> s * (n \div g), d |-> s * (d \div g)]

R(i) == [n |-> i, d |-> 1]

NaN == [n |-> 0, d |-> 0]

IsNaN(a) == a.d = 0 /\ a.n = 0

IsFinite(a) == a.d # 0

Neg(a) == [n |-> -a.n, d |-> a.d]

\* a * b (cross-cancelled before multiplying; 0 * Infinity = NaN)
Mul(a, b) ==
  IF IsNaN(a) \/ IsNaN(b) THEN NaN
  ELSE IF a.d = 0 \/ b.d = 0 THEN Norm(Sign(a.n) * Sign(b.n), 0)
  ELSE LET g1 == GCD(Abs(a.n), b.d)
           g2 == GCD(Abs(b.n), a.d)
       IN Norm((a.n \div g1) * (b.n \div g2), (a.d \div g2) * (b.d \div g1))

\* a / b (x / 0 = +-Infinity, 0 / 0 = NaN, x / Infinity = 0, Infinity / Infinity = NaN)
Div(a, b) ==
  IF IsNaN(a) \/ IsNaN(b) THEN NaN
  ELSE IF b.d = 0 THEN (IF a.d = 0 THEN NaN ELSE R(0))
  ELSE IF b.n = 0 THEN Norm(a.n, 0)
  ELSE Mul(a, Norm(b.d, b.n))

\* a + b (Infinity + -Infinity = NaN)
Add(a, b) ==
  IF IsNaN(a) \/ IsNaN(b) THEN NaN
  ELSE IF a.d = 0 THEN (IF b.d = 0 /\ b.n # a.n THEN NaN ELSE a)
  ELSE IF b.d = 0 THEN b
  ELSE LET g == GCD(a.d, b.d)
       IN Norm(a.n * (b.d \div g) + b.n * (a.d \div g), (a.d \div g) * b.d)

Sub(a, b) == Add(a, Neg(b))

\* a < b; every comparison with NaN is false
Lt(a, b) ==
  /\ ~IsNaN(a)
  /\ ~IsNaN(b)
  /\ IF a.d # 0 /\ b.d # 0
       THEN LET g == GCD(a.d, b.d) IN a.n * (b.d \div g) < b.n * (a.d \div g)
       ELSE (IF a.d = 0 THEN a.n ELSE 0) < (IF b.d = 0 THEN b.n ELSE 0)

Gt(a, b) == Lt(b, a)

Le(a, b) == ~IsNaN(a) /\ ~IsNaN(b) /\ ~Lt(b, a)

\* Math.round: the nearest integer, halves towards +Infinity
Round(a) ==
  IF a.d = 0 THEN a
  ELSE LET q == a.n \div a.d
           r == a.n % a.d
       IN R(IF r >= a.d - r THEN q + 1 ELSE q)

\* the truth value JavaScript gives a number: 0 and NaN are falsy
Truthy(a) == ~(a.n = 0)

\* Math.max of two numbers (NaN if either is)
Max2(a, b) == IF IsNaN(a) \/ IsNaN(b) THEN NaN ELSE IF Lt(a, b) THEN b ELSE a

\* Math.pow(b, k) for an integer k >= 0
RECURSIVE Pow(_, _)
Pow(b, k) == IF k <= 0 THEN R(1) ELSE Mul(b, Pow(b, k - 1))

\* the integer a Num holds
IntOf(a) == a.n \div a.d

----------------------------------------------------------------------------
(* Exact decimals of any size, for compound growth over the horizon *)

\* magnitudes: base-100 digits, least significant first, no high zero digit
RECURSIVE MagOfNat(_)
MagOfNat(k) == IF k = 0 THEN <<>> ELSE <<k % 100>> \o MagOfNat(k \div 100)

RECURSIVE MagTrim(_)
MagTrim(m) ==
  IF m = <<>> \/ m[Len(m)] # 0 THEN m ELSE MagTrim(SubSeq(m, 1, Len(m) - 1))

RECURSIVE MagAdd(_, _, _)
MagAdd(a, b, c) ==
  IF a = <<>> /\ b = <<>> THEN MagOfNat(c)
  ELSE LET t == (IF a = <<>> THEN 0 ELSE Head(a)) + (IF b = <<>> THEN 0 ELSE Head(b)) + c
       IN <<t % 100>> \o MagAdd(IF a = <<>> THEN a ELSE Tail(a),
                                IF b = <<>> THEN b ELSE Tail(b), t \div 100)

\* a - b - br for a >= b + br
RECURSIVE MagSubB(_, _, _)
MagSubB(a, b, br) ==
  IF a = <<>> THEN <<>>
  ELSE LET t == Head(a) - (IF b = <<>> THEN 0 ELSE Head(b)) - br
       IN <<t % 100>> \o MagSubB(Tail(a), IF b = <<>> THEN b ELSE Tail(b),
                                 IF t < 0 THEN 1 ELSE 0)

MagSub(a, b) == MagTrim(MagSubB(a, b, 0))

\* -1, 0, 1 as a < b, a = b, a > b
RECURSIVE MagCmp(_, _)
MagCmp(a, b) ==
  IF Len(a) # Len(b) THEN (IF Len(a) < Len(b) THEN -1 ELSE 1)
  ELSE IF a = <<>> THEN 0
  ELSE IF a[Len(a)] # b[Len(b)] THEN (IF a[Len(a)] < b[Len(b)] THEN -1 ELSE 1)
  ELSE MagCmp(SubSeq(a, 1, Len(a) - 1), SubSeq(b, 1, Len(b) - 1))

RECURSIVE MagMulSmall(_, _, _)
MagMulSmall(a, k, c) ==
  IF a = <<>> THEN MagOfNat(c)
  ELSE LET t == Head(a) * k + c
       IN <<t % 100>> \o MagMulSmall(Tail(a), k, t \div 100)

MagShl(m, j) == IF m = <<>> THEN m ELSE [i \in 1..j |-> 0] \o m

\* a * b, digit by digit of b
RECURSIVE MagMulBy(_, _)
MagMulBy(a, b) ==
  IF a = <<>> \/ b = <<>> THEN <<>>
  ELSE MagAdd(MagMulSmall(a, Head(b), 0), MagShl(MagMulBy(a, Tail(b)), 1), 0)

MagMul(a, b) == IF Len(a) < Len(b) THEN MagMulBy(b, a) ELSE MagMulBy(a, b)

\* the decimal (-1)^neg * mag * 100^(-scale), with the smallest scale
RECURSIVE DecCanon(_, _, _)
DecCanon(neg, mag, scale) ==
  IF mag = <<>> THEN [neg |-> FALSE, mag |-> <<>>, scale |-> 0]
  ELSE IF scale > 0 /\ Head(mag) = 0 THEN DecCanon(neg, Tail(mag), scale - 1)
  ELSE [neg |-> neg, mag |-> mag, scale |-> scale]

DecOfInt(i) == DecCanon(i < 0, MagOfNat(Abs(i)), 0)

DecNeg(a) == DecCanon(~a.neg, a.mag, a.scale)

DecAdd(a, b) ==
  LET s  == IF a.scale < b.scale THEN b.scale ELSE a.scale
      ma == MagShl(a.mag, s - a.scale)
      mb == MagShl(b.mag, s - b.scale)
      c  == MagCmp(ma, mb)
  IN IF a.neg = b.neg THEN DecCanon(a.neg, MagAdd(ma, mb, 0), s)
     ELSE IF c = 0 THEN DecOfInt(0)
     ELSE IF c > 0 THEN DecCanon(a.neg, MagSub(ma, mb), s)
     ELSE DecCanon(b.neg, MagSub(mb, ma), s)

DecSub(a, b) == DecAdd(a, DecNeg(b))

DecMul(a, b) == DecCanon(a.neg # b.neg, MagMul(a.mag, b.mag), a.scale + b.scale)

DecDiv100(a) == DecCanon(a.neg, a.mag, a.scale + 1)

DecLt(a, b) == DecSub(a, b).neg

DecLe(a, b) == ~DecLt(b, a)

RECURSIVE DecPow(_, _)
DecPow(b, k) == IF k <= 0 THEN DecOfInt(1) ELSE DecMul(b, DecPow(b, k - 1))

\* the decimal of a finite Num whose denominator divides a power of 100
ToDec(a) ==
  LET j == CHOOSE j \in 0..4 : (100^j) % a.d = 0 /\ \A i \in 0..(j - 1) : (100^i) % a.d # 0
  IN DecCanon(a.n < 0, MagOfNat(Abs(a.n) * ((100^j) \div a.d)), j)

----------------------------------------------------------------------------
(* The store's pure helpers *)

\* new Date().getFullYear(): the calendar year of the session
CurrentYear == 2026

\* one year of calculateLoanEMI's schedule: months month..12 from balance bal
RECURSIVE LoanMonths(_, _, _, _, _, _)
LoanMonths(month, bal, yearlyInterest, yearlyPrincipal, monthlyEMI, monthlyRate) ==
  IF month > 12
    THEN [interest |-> yearlyInterest, principal |-> yearlyPrincipal, balance |-> bal]
    ELSE LET monthlyInterest  == Mul(bal, monthlyRate)
             monthlyPrincipal == Sub(monthlyEMI, monthlyInterest)
             remaining        == Sub(bal, monthlyPrincipal)
         IN IF Le(remaining, R(0))
              THEN [interest  |-> Add(yearlyInterest, monthlyInterest),
                    principal |-> Add(yearlyPrincipal, monthlyPrincipal),
                    balance   |-> R(0)]
              ELSE LoanMonths(month + 1, remaining,
                              Add(yearlyInterest, monthlyInterest),
                              Add(yearlyPrincipal, monthlyPrincipal),
                              monthlyEMI, monthlyRate)

\* calculateLoanEMI's yearly loop from year `year` with balance bal
RECURSIVE LoanYears(_, _, _, _, _)
LoanYears(year, bal, tenure, monthlyEMI, monthlyRate) ==
  IF ~Le(R(year), tenure) THEN <<>>
  ELSE LET m   == LoanMonths(1, bal, R(0), R(0), monthlyEMI, monthlyRate)
           row == [year             |-> year,
                   beginningBalance |-> bal,
                   payment          |-> Mul(monthlyEMI, R(12)),
                   principal        |-> m.principal,
                   interest         |-> m.interest,
                   endingBalance    |-> m.balance]
       IN IF Le(m.balance, R(0)) THEN <<row>>
          ELSE <<row>> \o LoanYears(year + 1, m.balance, tenure, monthlyEMI, monthlyRate)

\* calculateLoanEMI up to its schedule loop: the payment and the totals
LoanTotals(principal, interestRate, tenure) ==
  IF Le(principal, R(0)) \/ Le(interestRate, R(0)) \/ Le(tenure, R(0))
    THEN [monthlyEMI |-> R(0), totalInterest |-> R(0), totalAmount |-> R(0),
          rawEMI |-> R(0), monthlyRate |-> R(0)]
    ELSE LET monthlyRate      == Div(Div(interestRate, R(12)), R(100))
             numberOfPayments == Mul(tenure, R(12))
             growth           == Pow(Add(R(1), monthlyRate), IntOf(numberOfPayments))
             monthlyEMI       == Div(Mul(Mul(principal, monthlyRate), growth),
                                     Sub(growth, R(1)))
             totalAmount      == Mul(monthlyEMI, numberOfPayments)
             totalInterest    == Sub(totalAmount, principal)
         IN [monthlyEMI    |-> Round(monthlyEMI),
             totalInterest |-> Round(totalInterest),
             totalAmount   |-> Round(totalAmount),
             rawEMI        |-> monthlyEMI,
             monthlyRate   |-> monthlyRate]

\* a faulty calculateLoanEMI: the monthly EMI is returned as computed, not rounded
calculateLoanEMIUnrounded(principal, interestRate, tenure) ==
  LET t == LoanTotals(principal, interestRate, tenure)
  IN [monthlyEMI      |-> t.rawEMI,
      totalInterest   |-> t.totalInterest,
      totalAmount     |-> t.totalAmount,
      yearlyBreakdown |->
        IF Le(principal, R(0)) \/ Le(interestRate, R(0)) \/ Le(tenure, R(0))
          THEN <<>>
          ELSE LoanYears(1, principal, tenure, t.rawEMI, t.monthlyRate)]

calculateLoanEMI(principal, interestRate, tenure) ==
  LET t == LoanTotals(principal, interestRate, tenure)
  IN [monthlyEMI      |-> t.monthlyEMI,
      totalInterest   |-> t.totalInterest,
      totalAmount     |-> t.totalAmount,
      yearlyBreakdown |->
        IF Le(principal, R(0)) \/ Le(interestRate, R(0)) \/ Le(tenure, R(0))
          THEN <<>>
          ELSE LoanYears(1, principal, tenure, t.rawEMI, t.monthlyRate)]

\* currentSalary * Math.pow(1 + growthRate / 100, years)
calculateProjectedSalary(currentSalary, growthRate, years) ==
  DecMul(ToDec(currentSalary), DecPow(ToDec(Add(R(1), Div(growthRate, R(100)))), years))

----------------------------------------------------------------------------
(* The calculator utilities *)

\* Math.min of two numbers (NaN if either is)
Min2(a, b) == IF IsNaN(a) \/ IsNaN(b) THEN NaN ELSE IF Lt(b, a) THEN b ELSE a

\* one year of calculateEMI's schedule: months month..12 while a balance remains
RECURSIVE EMIMonths(_, _, _, _, _, _, _)
EMIMonths(month, remainingBalance, yearlyPayment, yearlyInterest, yearlyPrincipal, monthlyEMI, monthlyRate) ==
  IF ~(month <= 12 /\ Gt(remainingBalance, R(0)))
    THEN [payment |-> yearlyPayment, interest |-> yearlyInterest,
          principal |-> yearlyPrincipal, balance |-> remainingBalance]
    ELSE LET monthlyInterest  == Mul(remainingBalance, monthlyRate)
             monthlyPrincipal == Min2(Sub(monthlyEMI, monthlyInterest), remainingBalance)
         IN EMIMonths(month + 1, Sub(remainingBalance, monthlyPrincipal),
                      Add(yearlyPayment, Add(monthlyInterest, monthlyPrincipal)),
                      Add(yearlyInterest, monthlyInterest),
                      Add(yearlyPrincipal, monthlyPrincipal),
                      monthlyEMI, monthlyRate)

\* a faulty yearly loop of calculateEMI: the balance a year ends with is not
\* carried into the next year
RECURSIVE EMIYearsRestarting(_, _, _, _, _)
EMIYearsRestarting(year, remainingBalance, tenure, monthlyEMI, monthlyRate) ==
  IF ~Le(R(year), tenure) THEN <<>>
  ELSE LET m   == EMIMonths(1, remainingBalance, R(0), R(0), R(0), monthlyEMI, monthlyRate)
           row == [year             |-> year,
                   beginningBalance |-> remainingBalance,
                   payment          |-> m.payment,
                   principal        |-> m.principal,
                   interest         |-> m.interest,
                   endingBalance    |-> Max2(R(0), m.balance)]
       IN IF Le(m.balance, R(0)) THEN <<row>>
          ELSE <<row>> \o EMIYearsRestarting(year + 1, remainingBalance, tenure,
                                             monthlyEMI, monthlyRate)

\* calculateEMI's yearly loop from year `year` with the balance remaining
RECURSIVE EMIYears(_, _, _, _, _)
EMIYears(year, remainingBalance, tenure, monthlyEMI, monthlyRate) ==
  IF ~Le(R(year), tenure) THEN <<>>
  ELSE LET m   == EMIMonths(1, remainingBalance, R(0), R(0), R(0), monthlyEMI, monthlyRate)
           row == [year             |-> year,
                   beginningBalance |-> remainingBalance,
                   payment          |-> m.payment,
                   principal        |-> m.principal,
                   interest         |-> m.interest,
                   endingBalance    |-> Max2(R(0), m.balance)]
       IN IF Le(m.balance, R(0)) THEN <<row>>
          ELSE <<row>> \o EMIYears(year + 1, m.balance, tenure, monthlyEMI, monthlyRate)

\* a faulty calculateEMI: the guard lets a zero interest rate through
calculateEMIUnguardedRate(principal, interestRate, tenure) ==
  IF Le(principal, R(0)) \/ Lt(interestRate, R(0)) \/ Le(tenure, R(0))
    THEN [monthlyEMI |-> R(0), totalInterest |-> R(0), totalAmount |-> R(0),
          yearlyBreakdown |-> <<>>]
    ELSE LET monthlyRate      == Div(Div(interestRate, R(12)), R(100))
             numberOfPayments == Mul(tenure, R(12))
             growth           == Pow(Add(R(1), monthlyRate), IntOf(numberOfPayments))
             monthlyEMI       == Div(Mul(Mul(principal, monthlyRate), growth),
                                     Sub(growth, R(1)))
             totalAmount      == Mul(monthlyEMI, numberOfPayments)
         IN [monthlyEMI      |-> Round(monthlyEMI),
             totalInterest   |-> Round(Sub(totalAmount, principal)),
             totalAmount     |-> Round(totalAmount),
             yearlyBreakdown |-> EMIYears(1, principal, tenure, monthlyEMI, monthlyRate)]

\* calculateEMI({ principal, interestRate, tenure })
calculateEMI(principal, interestRate, tenure) ==
  IF Le(principal, R(0)) \/ Le(interestRate, R(0)) \/ Le(tenure, R(0))
    THEN [monthlyEMI |-> R(0), totalInterest |-> R(0), totalAmount |-> R(0),
          yearlyBreakdown |-> <<>>]
    ELSE LET monthlyRate      == Div(Div(interestRate, R(12)), R(100))
             numberOfPayments == Mul(tenure, R(12))
             growth           == Pow(Add(R(1), monthlyRate), IntOf(numberOfPayments))
             monthlyEMI       == Div(Mul(Mul(principal, monthlyRate), growth),
                                     Sub(growth, R(1)))
             totalAmount      == Mul(monthlyEMI, numberOfPayments)
             totalInterest    == Sub(totalAmount, principal)
         IN [monthlyEMI      |-> Round(monthlyEMI),
             totalInterest   |-> Round(totalInterest),
             totalAmount     |-> Round(totalAmount),
             yearlyBreakdown |-> EMIYears(1, principal, tenure, monthlyEMI, monthlyRate)]

\* calculateFOIR(monthlyEMI, monthlyIncome)
calculateFOIR(monthlyEMI, monthlyIncome) ==
  IF Le(monthlyIncome, R(0)) THEN R(0)
  ELSE Div(Round(Mul(Mul(Div(monthlyEMI, monthlyIncome), R(100)), R(100))), R(100))

\* a faulty calculateMaxLoanAmount: the number of payments is the tenure in years
calculateMaxLoanAmountYearly(monthlyIncome, maxFOIR, interestRate, tenure, existingEMI) ==
  LET maxEMI       == Div(Mul(monthlyIncome, maxFOIR), R(100))
      availableEMI == Sub(maxEMI, existingEMI)
  IN IF Le(availableEMI, R(0)) THEN R(0)
     ELSE LET monthlyRate == Div(Div(interestRate, R(12)), R(100))
              growth      == Pow(Add(R(1), monthlyRate), IntOf(tenure))
          IN Round(Div(Mul(availableEMI, Sub(growth, R(1))), Mul(monthlyRate, growth)))

\* calculateMaxLoanAmount(monthlyIncome, maxFOIR, interestRate, tenure, existingEMI)
calculateMaxLoanAmount(monthlyIncome, maxFOIR, interestRate, tenure, existingEMI) ==
  LET maxEMI       == Div(Mul(monthlyIncome, maxFOIR), R(100))
      availableEMI == Sub(maxEMI, existingEMI)
  IN IF Le(availableEMI, R(0)) THEN R(0)
     ELSE LET monthlyRate      == Div(Div(interestRate, R(12)), R(100))
              numberOfPayments == Mul(tenure, R(12))
              growth           == Pow(Add(R(1), monthlyRate), IntOf(numberOfPayments))
              maxLoanAmount    == Div(Mul(availableEMI, Sub(growth, R(1))),
                                      Mul(monthlyRate, growth))
          IN Round(maxLoanAmount)

\* generateAmortizationSchedule's loop from month `month` with the balance remaining
RECURSIVE ScheduleMonths(_, _, _, _, _)
ScheduleMonths(month, remainingBalance, numberOfPayments, monthlyEMI, monthlyRate) ==
  IF ~Le(R(month), numberOfPayments) THEN <<>>
  ELSE LET monthlyInterest  == Mul(remainingBalance, monthlyRate)
           monthlyPrincipal == Min2(Sub(monthlyEMI, monthlyInterest), remainingBalance)
           balance          == Sub(remainingBalance, monthlyPrincipal)
           row == [month     |-> month,
                   payment   |-> Round(monthlyEMI),
                   principal |-> Round(monthlyPrincipal),
                   interest  |-> Round(monthlyInterest),
                   balance   |-> Round(Max2(R(0), balance))]
       IN IF Le(balance, R(0)) THEN <<row>>
          ELSE <<row>> \o ScheduleMonths(month + 1, balance, numberOfPayments,
                                         monthlyEMI, monthlyRate)

\* generateAmortizationSchedule(principal, interestRate, tenure)
generateAmortizationSchedule(principal, interestRate, tenure) ==
  LET monthlyRate      == Div(Div(interestRate, R(12)), R(100))
      numberOfPayments == Mul(tenure, R(12))
      growth           == Pow(Add(R(1), monthlyRate), IntOf(numberOfPayments))
      monthlyEMI       == Div(Mul(Mul(principal, monthlyRate), growth), Sub(growth, R(1)))
  IN ScheduleMonths(1, principal, numberOfPayments, monthlyEMI, monthlyRate)

\* calculateMonthlySavings(targetAmount, timeInYears, currentSavings, interestRate)
calculateMonthlySavings(targetAmount, timeInYears, currentSavings, interestRate) ==
  IF Le(timeInYears, R(0)) THEN targetAmount
  ELSE LET monthlyRate     == Div(Div(interestRate, R(12)), R(100))
           numberOfMonths  == Mul(timeInYears, R(12))
           growth          == Pow(Add(R(1), monthlyRate), IntOf(numberOfMonths))
           remainingAmount == Sub(targetAmount, Mul(currentSavings, growth))
       IN IF Le(remainingAmount, R(0)) THEN R(0)
          ELSE Round(Div(Mul(remainingAmount, monthlyRate), Sub(growth, R(1))))

\* a faulty calculatePlotTotalCost: stamp duty is charged on the base cost and
\* the registration cost together
calculatePlotTotalCostCompounding(size, pricePerSqFt, registrationRate, stampDutyRate, otherCharges) ==
  LET baseCost         == Mul(size, pricePerSqFt)
      registrationCost == Div(Mul(baseCost, registrationRate), R(100))
      stampDuty        == Div(Mul(Add(baseCost, registrationCost), stampDutyRate), R(100))
      totalCost        == Add(Add(Add(baseCost, registrationCost), stampDuty), otherCharges)
  IN [baseCost         |-> Round(baseCost),
      registrationCost |-> Round(registrationCost),
      stampDuty        |-> Round(stampDuty),
      totalCost        |-> Round(totalCost)]

\* calculatePlotTotalCost(size, pricePerSqFt, registrationRate, stampDutyRate,
\* otherCharges)
calculatePlotTotalCost(size, pricePerSqFt, registrationRate, stampDutyRate, otherCharges) ==
  LET baseCost         == Mul(size, pricePerSqFt)
      registrationCost == Div(Mul(baseCost, registrationRate), R(100))
      stampDuty        == Div(Mul(baseCost, stampDutyRate), R(100))
      totalCost        == Add(Add(Add(baseCost, registrationCost), stampDuty), otherCharges)
  IN [baseCost         |-> Round(baseCost),
      registrationCost |-> Round(registrationCost),
      stampDuty        |-> Round(stampDuty),
      totalCost        |-> Round(totalCost)]

\* validateFinancialInputs(inputs); `inputs` is a function on the fields that
\* are not undefined
validateFinancialInputs(inputs) ==
  LET Has(field) == field \in DOMAIN inputs
      Push(violated, message) == IF violated THEN <<message>> ELSE <<>>
      errors ==
        Push(Has("salary") /\ Le(inputs.salary, R(0)),
             "Salary must be greater than 0")
        \o Push(Has("emi") /\ Lt(inputs.emi, R(0)),
                "EMI cannot be negative")
        \o Push(Has("plotSize") /\ Le(inputs.plotSize, R(0)),
                "Plot size must be greater than 0")
        \o Push(Has("pricePerSqFt") /\ Le(inputs.pricePerSqFt, R(0)),
                "Price per sq ft must be greater than 0")
        \o Push(Has("downPayment")
                  /\ (Lt(inputs.downPayment, R(0)) \/ Gt(inputs.downPayment, R(100))),
                "Down payment must be between 0 and 100 percent")
        \o Push(Has("interestRate")
                  /\ (Le(inputs.interestRate, R(0)) \/ Gt(inputs.interestRate, R(50))),
                "Interest rate must be between 0 and 50 percent")
        \o Push(Has("tenure")
                  /\ (Le(inputs.tenure, R(0)) \/ Gt(inputs.tenure, R(50))),
                "Loan tenure must be between 1 and 50 years")
  IN [isValid |-> Len(errors) = 0, errors |-> errors]

\* a faulty calculateRiskLevel: the thresholds count a value equal to them
calculateRiskLevelInclusive(currentFOIR, projectedFOIR, ageAtLoanEnd, hasEmergencyFund) ==
  LET foirRisk      == IF Le(R(40), currentFOIR) THEN 3
                       ELSE IF Le(R(30), currentFOIR) THEN 2
                       ELSE IF Le(R(20), currentFOIR) THEN 1 ELSE 0
      projectedRisk == IF Le(R(45), projectedFOIR) THEN 2
                       ELSE IF Le(R(35), projectedFOIR) THEN 1 ELSE 0
      ageRisk       == IF Le(R(65), ageAtLoanEnd) THEN 2
                       ELSE IF Le(R(60), ageAtLoanEnd) THEN 1 ELSE 0
      riskScore     == foirRisk + projectedRisk + ageRisk
                         - (IF hasEmergencyFund THEN 1 ELSE 0)
  IN IF riskScore >= 4 THEN "high" ELSE IF riskScore >= 2 THEN "medium" ELSE "low"

\* a faulty calculateRiskLevel: the comparison of the second FOIR branch is
\* the wrong way round
calculateRiskLevelFlipped(currentFOIR, projectedFOIR, ageAtLoanEnd, hasEmergencyFund) ==
  LET foirRisk      == IF Gt(currentFOIR, R(40)) THEN 3
                       ELSE IF Lt(currentFOIR, R(30)) THEN 2
                       ELSE IF Gt(currentFOIR, R(20)) THEN 1 ELSE 0
      projectedRisk == IF Gt(projectedFOIR, R(45)) THEN 2
                       ELSE IF Gt(projectedFOIR, R(35)) THEN 1 ELSE 0
      ageRisk       == IF Gt(ageAtLoanEnd, R(65)) THEN 2
                       ELSE IF Gt(ageAtLoanEnd, R(60)) THEN 1 ELSE 0
      riskScore     == foirRisk + projectedRisk + ageRisk
                         - (IF hasEmergencyFund THEN 1 ELSE 0)
  IN IF riskScore >= 4 THEN "high" ELSE IF riskScore >= 2 THEN "medium" ELSE "low"

\* calculateRiskLevel(currentFOIR, projectedFOIR, ageAtLoanEnd, hasEmergencyFund)
calculateRiskLevel(currentFOIR, projectedFOIR, ageAtLoanEnd, hasEmergencyFund) ==
  LET foirRisk      == IF Gt(currentFOIR, R(40)) THEN 3
                       ELSE IF Gt(currentFOIR, R(30)) THEN 2
                       ELSE IF Gt(currentFOIR, R(20)) THEN 1 ELSE 0
      projectedRisk == IF Gt(projectedFOIR, R(45)) THEN 2
                       ELSE IF Gt(projectedFOIR, R(35)) THEN 1 ELSE 0
      ageRisk       == IF Gt(ageAtLoanEnd, R(65)) THEN 2
                       ELSE IF Gt(ageAtLoanEnd, R(60)) THEN 1 ELSE 0
      riskScore     == foirRisk + projectedRisk + ageRisk
                         - (IF hasEmergencyFund THEN 1 ELSE 0)
  IN IF riskScore >= 4 THEN "high" ELSE IF riskScore >= 2 THEN "medium" ELSE "low"

----------------------------------------------------------------------------
(* The store: AppState, and what the persist middleware keeps in storage *)

VARIABLES
  userProfile,         \* UserProfile
  plots,               \* PlotData[]
  currentMetrics,      \* FinancialMetrics
  salaryProjections,   \* SalaryProjection[]
  timelineEvents,      \* TimelineEvent[]
  activeTab, isMobileNavOpen, isLoading,
  dashboardChartData, timelineChartData, scenarioChartData, foirChartData,
  storage,             \* the "plot-planner-storage" item of localStorage
  call                 \* a call of a calculator: its name, arguments and result

vars == <<userProfile, plots, currentMetrics, salaryProjections, timelineEvents,
          activeTab, isMobileNavOpen, isLoading,
          dashboardChartData, timelineChartData, scenarioChartData, foirChartData,
          storage, call>>

\* null (a chart not built yet, no item in storage)
Null == [isNull |-> TRUE]

DEFAULT_USER_PROFILE ==
  [currentSalary       |-> R(88000),
   salaryGrowthRate    |-> R(58),
   currentEMI          |-> R(20600),
   maxFOIR             |-> R(40),
   riskTolerance       |-> "medium",
   preferredLoanTenure |-> R(20)]

initialState ==
  [userProfile        |-> DEFAULT_USER_PROFILE,
   plots              |-> <<>>,
   currentMetrics     |-> [totalProjectCost     |-> R(0),
                           totalLoanAmount      |-> R(0),
                           totalMonthlyEMI      |-> R(0),
                           totalInterest        |-> R(0),
                           currentFOIR          |-> R(0),
                           availableEMICapacity |-> R(0),
                           totalDebtCapacity    |-> R(0),
                           riskLevel            |-> "low",
                           loanEndYear          |-> R(CurrentYear)],
   salaryProjections  |-> <<>>,
   timelineEvents     |-> <<>>,
   activeTab          |-> "dashboard",
   isMobileNavOpen    |-> FALSE,
   isLoading          |-> FALSE,
   dashboardChartData |-> Null,
   timelineChartData  |-> Null,
   scenarioChartData  |-> Null,
   foirChartData      |-> Null]

\* the store's state as one record (what get() returns)
State ==
  [userProfile        |-> userProfile,
   plots              |-> plots,
   currentMetrics     |-> currentMetrics,
   salaryProjections  |-> salaryProjections,
   timelineEvents     |-> timelineEvents,
   activeTab          |-> activeTab,
   isMobileNavOpen    |-> isMobileNavOpen,
   isLoading          |-> isLoading,
   dashboardChartData |-> dashboardChartData,
   timelineChartData  |-> timelineChartData,
   scenarioChartData  |-> scenarioChartData,
   foirChartData      |-> foirChartData]

\* { ...a, ...b }: b's fields over a's
Spread(a, b) ==
  [f \in DOMAIN a \cup DOMAIN b |-> IF f \in DOMAIN b THEN b[f] ELSE a[f]]

\* generateId(): a string taken never to repeat an id in use
generateId(s) ==
  LET used == {s.plots[i].id : i \in DOMAIN s.plots}
                \cup {s.timelineEvents[i].id : i \in DOMAIN s.timelineEvents}
                \cup {s.timelineEvents[i].plotId : i \in DOMAIN s.timelineEvents}
  IN CHOOSE i \in 1..(Cardinality(used) + 1) :
       i \notin used /\ \A j \in 1..(i - 1) : j \in used

\* plots.reduce((sum, plot) => sum + plot[f], 0)
RECURSIVE SumField(_, _, _)
SumField(ps, f, sum) ==
  IF ps = <<>> THEN sum ELSE SumField(Tail(ps), f, Add(sum, Head(ps)[f]))

\* Math.max(...plots.map((plot) => plot.purchaseYear + plot.loanTenure), acc)
RECURSIVE MaxLoanEnd(_, _)
MaxLoanEnd(ps, acc) ==
  IF ps = <<>> THEN acc
  ELSE MaxLoanEnd(Tail(ps), Max2(acc, Add(Head(ps).purchaseYear, Head(ps).loanTenure)))

\* the riskLevel calculateMetrics derives from the FOIR it computed
StoreRiskLevel(currentFOIR) ==
  IF Gt(currentFOIR, R(40)) THEN "high"
  ELSE IF Gt(currentFOIR, R(30)) THEN "medium"
  ELSE "low"

\* a faulty calculateMetrics: the profile's existing EMI is left out of the total
calculateMetricsWithoutProfileEMI(s) ==
  LET totalMonthlyEMI      == SumField(s.plots, "monthlyEMI", R(0))
      monthlyIncome        == s.userProfile.currentSalary
      currentFOIR          == Mul(Div(totalMonthlyEMI, monthlyIncome), R(100))
      availableEMICapacity == Sub(Div(Mul(monthlyIncome, s.userProfile.maxFOIR), R(100)),
                                  totalMonthlyEMI)
  IN [s EXCEPT !.currentMetrics =
        [totalProjectCost     |-> SumField(s.plots, "totalCost", R(0)),
         totalLoanAmount      |-> SumField(s.plots, "loanAmount", R(0)),
         totalMonthlyEMI      |-> totalMonthlyEMI,
         totalInterest        |-> SumField(s.plots, "totalInterest", R(0)),
         currentFOIR          |-> currentFOIR,
         availableEMICapacity |-> availableEMICapacity,
         totalDebtCapacity    |-> Mul(Mul(availableEMICapacity, R(20)), R(12)),
         riskLevel            |-> StoreRiskLevel(currentFOIR),
         loanEndYear          |-> MaxLoanEnd(s.plots, R(CurrentYear))]]

\* a faulty calculateMetrics: a negative available capacity is shown as 0
calculateMetricsClamped(s) ==
  LET totalMonthlyEMI      == Add(SumField(s.plots, "monthlyEMI", R(0)),
                                  s.userProfile.currentEMI)
      monthlyIncome        == s.userProfile.currentSalary
      currentFOIR          == Mul(Div(totalMonthlyEMI, monthlyIncome), R(100))
      availableEMICapacity ==
        Max2(R(0), Sub(Div(Mul(monthlyIncome, s.userProfile.maxFOIR), R(100)),
                       totalMonthlyEMI))
  IN [s EXCEPT !.currentMetrics =
        [totalProjectCost     |-> SumField(s.plots, "totalCost", R(0)),
         totalLoanAmount      |-> SumField(s.plots, "loanAmount", R(0)),
         totalMonthlyEMI      |-> totalMonthlyEMI,
         totalInterest        |-> SumField(s.plots, "totalInterest", R(0)),
         currentFOIR          |-> currentFOIR,
         availableEMICapacity |-> availableEMICapacity,
         totalDebtCapacity    |-> Mul(Mul(availableEMICapacity, R(20)), R(12)),
         riskLevel            |-> StoreRiskLevel(currentFOIR),
         loanEndYear          |-> MaxLoanEnd(s.plots, R(CurrentYear))]]

\* the producer of calculateMetrics
calculateMetrics(s) ==
  LET totalProjectCost     == SumField(s.plots, "totalCost", R(0))
      totalLoanAmount      == SumField(s.plots, "loanAmount", R(0))
      totalMonthlyEMI      == Add(SumField(s.plots, "monthlyEMI", R(0)),
                                  s.userProfile.currentEMI)
      totalInterest        == SumField(s.plots, "totalInterest", R(0))
      monthlyIncome        == s.userProfile.currentSalary
      currentFOIR          == Mul(Div(totalMonthlyEMI, monthlyIncome), R(100))
      maxEMICapacity       == Div(Mul(monthlyIncome, s.userProfile.maxFOIR), R(100))
      availableEMICapacity == Sub(maxEMICapacity, totalMonthlyEMI)
      totalDebtCapacity    == Mul(Mul(availableEMICapacity, R(20)), R(12))
      riskLevel            == StoreRiskLevel(currentFOIR)
      maxLoanEndYear       == MaxLoanEnd(s.plots, R(CurrentYear))
  IN [s EXCEPT !.currentMetrics =
        [totalProjectCost     |-> totalProjectCost,
         totalLoanAmount      |-> totalLoanAmount,
         totalMonthlyEMI      |-> totalMonthlyEMI,
         totalInterest        |-> totalInterest,
         currentFOIR          |-> currentFOIR,
         availableEMICapacity |-> availableEMICapacity,
         totalDebtCapacity    |-> totalDebtCapacity,
         riskLevel            |-> riskLevel,
         loanEndYear          |-> maxLoanEndYear]]

\* the loop of calculateSalaryProjections from index i
RECURSIVE ProjectionLoop(_, _, _)
ProjectionLoop(i, projections, profile) ==
  IF ~(i < 10) THEN projections
  ELSE LET salary            == calculateProjectedSalary(profile.currentSalary,
                                                         profile.salaryGrowthRate, i)
           emiCapacity       == DecDiv100(DecMul(salary, ToDec(profile.maxFOIR)))
           availableCapacity == DecSub(emiCapacity, ToDec(profile.currentEMI))
       IN ProjectionLoop(i + 1,
                         Append(projections,
                                [year              |-> CurrentYear + i,
                                 salary            |-> salary,
                                 emiCapacity       |-> emiCapacity,
                                 availableCapacity |-> availableCapacity]),
                         profile)

\* a faulty calculateSalaryProjections: the new entries are pushed after the
\* ones the store already holds
calculateSalaryProjectionsAppending(s) ==
  [s EXCEPT !.salaryProjections = ProjectionLoop(0, s.salaryProjections, s.userProfile)]

\* the producer of calculateSalaryProjections
calculateSalaryProjections(s) ==
  [s EXCEPT !.salaryProjections = ProjectionLoop(0, <<>>, s.userProfile)]

\* the producer of updateDashboardChart
updateDashboardChart(s) ==
  LET sp == s.salaryProjections
  IN [s EXCEPT !.dashboardChartData =
        [labels   |-> [i \in DOMAIN sp |-> ToString(sp[i].year)],
         datasets |-> <<[label |-> "Salary",
                         data  |-> [i \in DOMAIN sp |-> sp[i].salary]],
                        [label |-> "EMI Capacity",
                         data  |-> [i \in DOMAIN sp |-> sp[i].emiCapacity]]>>]]

\* plots.filter((plot) => plot.purchaseYear === year)
YearPurchases(ps, year) == SelectSeq(ps, LAMBDA plot : plot.purchaseYear = R(year))

\* the producer of updateTimelineChart
updateTimelineChart(s) ==
  [s EXCEPT !.timelineChartData =
     [labels   |-> [k \in 1..10 |-> ToString(CurrentYear + (k - 1))],
      datasets |-> <<[label |-> "Purchase Amount",
                      data  |-> [k \in 1..10 |->
                                   SumField(YearPurchases(s.plots, CurrentYear + (k - 1)),
                                            "totalCost", R(0))]],
                     [label |-> "Loan Amount",
                      data  |-> [k \in 1..10 |->
                                   SumField(YearPurchases(s.plots, CurrentYear + (k - 1)),
                                            "loanAmount", R(0))]]>>]]

\* a faulty updateScenarioChart: the growth rates are listed highest first
updateScenarioChartDescending(s) ==
  LET growthRates == <<Add(s.userProfile.salaryGrowthRate, R(2)),
                       s.userProfile.salaryGrowthRate,
                       Sub(s.userProfile.salaryGrowthRate, R(2))>>
  IN [s EXCEPT !.scenarioChartData =
        [labels   |-> <<"Conservative", "Moderate", "Aggressive">>,
         datasets |-> <<[label |-> "5-Year Salary Projection",
                         data  |-> [k \in 1..3 |->
                                      calculateProjectedSalary(s.userProfile.currentSalary,
                                                               growthRates[k], 5)]]>>]]

\* the producer of updateScenarioChart
updateScenarioChart(s) ==
  LET growthRates == <<Sub(s.userProfile.salaryGrowthRate, R(2)),
                       s.userProfile.salaryGrowthRate,
                       Add(s.userProfile.salaryGrowthRate, R(2))>>
  IN [s EXCEPT !.scenarioChartData =
        [labels   |-> <<"Conservative", "Moderate", "Aggressive">>,
         datasets |-> <<[label |-> "5-Year Salary Projection",
                         data  |-> [k \in 1..3 |->
                                      calculateProjectedSalary(s.userProfile.currentSalary,
                                                               growthRates[k], 5)]]>>]]

\* the producer of updateFoirChart
updateFoirChart(s) ==
  [s EXCEPT !.foirChartData =
     [labels   |-> <<"Used FOIR", "Available FOIR">>,
      datasets |-> <<[label |-> "FOIR Distribution",
                      data  |-> <<s.currentMetrics.currentFOIR,
                                  Sub(R(100), s.currentMetrics.currentFOIR)>>]>>]]

----------------------------------------------------------------------------
(* The store's operations.  Each is the sequence of states its `set` calls  *)
(* publish, in call order; the last one is the state the operation leaves. *)

\* the index of the first element with this id, 0 if none (findIndex)
FindIndex(seq, id) ==
  IF \E i \in DOMAIN seq : seq[i].id = id
    THEN CHOOSE i \in DOMAIN seq : seq[i].id = id /\ \A j \in 1..(i - 1) : seq[j].id # id
    ELSE 0

\* updates[f] is present and truthy
Touches(updates, f) == f \in DOMAIN updates /\ Truthy(updates[f])

updateUserProfile(s, profile) ==
  LET s1 == [s EXCEPT !.userProfile = Spread(@, profile)]
      s2 == calculateMetrics(s1)
      s3 == calculateSalaryProjections(s2)
      s4 == updateDashboardChart(s3)
  IN <<s1, s2, s3, s4>>

\* the plot addPlot's producer pushes
NewPlot(s, plotData) ==
  LET newPlot    == Spread(plotData, [id |-> generateId(s)])
      \* of calculateLoanEMI's result only monthlyEMI and totalInterest are read;
      \* it is computed from the loan amount the caller passed
      loanResult == LoanTotals(newPlot.loanAmount, newPlot.interestRate,
                               newPlot.loanTenure)
      totalCost  == Mul(newPlot.size, newPlot.pricePerSqFt)
      downPaymentAmount ==
        Mul(totalCost, Div(newPlot.downPaymentPercentage, R(100)))
  IN [newPlot EXCEPT !.monthlyEMI        = loanResult.monthlyEMI,
                     !.totalInterest     = loanResult.totalInterest,
                     !.totalCost         = totalCost,
                     !.downPaymentAmount = downPaymentAmount,
                     !.loanAmount        = Sub(totalCost, downPaymentAmount)]

addPlot(s, plotData) ==
  LET s1 == [s EXCEPT !.plots = Append(@, NewPlot(s, plotData))]
      s2 == calculateMetrics(s1)
      s3 == updateTimelineChart(s2)
  IN <<s1, s2, s3>>

\* a faulty updatePlot producer: the total cost is derived again from size and price
UpdatedPlotRederiving(plot0, updates) ==
  LET plot       == Spread(plot0, updates)
      loanResult == LoanTotals(plot.loanAmount, plot.interestRate, plot.loanTenure)
      rederived  == [plot EXCEPT !.totalCost = Mul(plot.size, plot.pricePerSqFt)]
  IN IF Touches(updates, "loanAmount") \/ Touches(updates, "interestRate")
          \/ Touches(updates, "loanTenure")
       THEN [rederived EXCEPT !.monthlyEMI = loanResult.monthlyEMI,
                              !.totalInterest = loanResult.totalInterest]
       ELSE rederived

\* the plot updatePlot's producer leaves at plotIndex
UpdatedPlot(plot0, updates) ==
  LET plot == Spread(plot0, updates)
  IN IF Touches(updates, "loanAmount") \/ Touches(updates, "interestRate")
          \/ Touches(updates, "loanTenure")
       THEN LET loanResult == LoanTotals(plot.loanAmount, plot.interestRate,
                                         plot.loanTenure)
            IN [plot EXCEPT !.monthlyEMI = loanResult.monthlyEMI,
                            !.totalInterest = loanResult.totalInterest]
       ELSE plot

updatePlot(s, id, updates) ==
  LET plotIndex == FindIndex(s.plots, id)
      s1 == IF plotIndex # 0
              THEN [s EXCEPT !.plots[plotIndex] = UpdatedPlot(@, updates)]
              ELSE s
      s2 == calculateMetrics(s1)
      s3 == updateTimelineChart(s2)
  IN <<s1, s2, s3>>

\* a faulty deletePlot: the events that name the plot are deleted with it
deletePlotCascading(s, id) ==
  LET s1 == [s EXCEPT !.plots = SelectSeq(@, LAMBDA plot : plot.id # id),
                      !.timelineEvents = SelectSeq(@, LAMBDA event : event.plotId # id)]
      s2 == calculateMetrics(s1)
      s3 == updateTimelineChart(s2)
  IN <<s1, s2, s3>>

deletePlot(s, id) ==
  LET s1 == [s EXCEPT !.plots = SelectSeq(@, LAMBDA plot : plot.id # id)]
      s2 == calculateMetrics(s1)
      s3 == updateTimelineChart(s2)
  IN <<s1, s2, s3>>

\* Array.prototype.sort with (a, b) => a.date.getTime() - b.date.getTime(): stable
RECURSIVE InsertByDate(_, _)
InsertByDate(sorted, e) ==
  IF sorted = <<>> THEN <<e>>
  ELSE IF sorted[Len(sorted)].date.t <= e.date.t THEN Append(sorted, e)
  ELSE Append(InsertByDate(SubSeq(sorted, 1, Len(sorted) - 1), e), sorted[Len(sorted)])

RECURSIVE SortByDate(_)
SortByDate(events) ==
  IF events = <<>> THEN <<>>
  ELSE InsertByDate(SortByDate(SubSeq(events, 1, Len(events) - 1)), events[Len(events)])

\* the comparator is called (two elements or more) on a date that is not a Date:
\* getTime is not a function, the producer throws and nothing is set
SortThrows(events) ==
  Len(events) >= 2 /\ \E i \in DOMAIN events : events[i].date.kind # "Date"

addTimelineEvent(s, event) ==
  LET pushed == Append(s.timelineEvents, Spread(event, [id |-> generateId(s)]))
  IN IF SortThrows(pushed) THEN <<>>
     ELSE <<[s EXCEPT !.timelineEvents = SortByDate(pushed)]>>

\* a faulty updateTimelineEvent: the event is replaced in place and the list not sorted
updateTimelineEventUnsorted(s, id, updates) ==
  LET eventIndex == FindIndex(s.timelineEvents, id)
  IN IF eventIndex = 0 THEN <<s>>
     ELSE <<[s EXCEPT !.timelineEvents[eventIndex] = Spread(@, updates)]>>

updateTimelineEvent(s, id, updates) ==
  LET eventIndex == FindIndex(s.timelineEvents, id)
      replaced   == [s.timelineEvents EXCEPT ![eventIndex] = Spread(@, updates)]
  IN IF eventIndex = 0 THEN <<s>>
     ELSE IF SortThrows(replaced) THEN <<>>
     ELSE <<[s EXCEPT !.timelineEvents = SortByDate(replaced)]>>

\* a faulty deleteTimelineEvent: the events of the plot with that id go too
deleteTimelineEventOfPlot(s, id) ==
  <<[s EXCEPT !.timelineEvents =
       SelectSeq(@, LAMBDA event : event.id # id /\ event.plotId # id)]>>

deleteTimelineEvent(s, id) ==
  <<[s EXCEPT !.timelineEvents = SelectSeq(@, LAMBDA event : event.id # id)]>>

setActiveTab(s, tab) == <<[s EXCEPT !.activeTab = tab]>>

setMobileNavOpen(s, open) == <<[s EXCEPT !.isMobileNavOpen = open]>>

setLoading(s, loading) == <<[s EXCEPT !.isLoading = loading]>>

\* a faulty loadFromStorage: the charts are rebuilt, the metrics are not
loadFromStorageStaleMetrics(s) ==
  LET s2 == calculateSalaryProjections(s)
      s3 == updateDashboardChart(s2)
      s4 == updateTimelineChart(s3)
      s5 == updateScenarioChart(s4)
      s6 == updateFoirChart(s5)
  IN <<s2, s3, s4, s5, s6>>

loadFromStorage(s) ==
  LET s1 == calculateMetrics(s)
      s2 == calculateSalaryProjections(s1)
      s3 == updateDashboardChart(s2)
      s4 == updateTimelineChart(s3)
      s5 == updateScenarioChart(s4)
      s6 == updateFoirChart(s5)
  IN <<s1, s2, s3, s4, s5, s6>>

resetData(s) == <<Spread(s, initialState)>>

\* JSON.parse(JSON.stringify(v)) of a date: an ISO string, no longer a Date
JSONDate(date) == [kind |-> "string", t |-> date.t]

\* partialize, then the JSON round trip through localStorage (the numbers the
\* model stores are finite, which JSON keeps)
partialize(s) ==
  [userProfile    |-> s.userProfile,
   plots          |-> s.plots,
   timelineEvents |-> [i \in DOMAIN s.timelineEvents |->
                         [s.timelineEvents[i] EXCEPT !.date = JSONDate(@)]]]

\* the store built on page load: persist merges the stored item over the initial
\* state, then onRehydrateStorage calls loadFromStorage
rehydrate(stored) ==
  LET s0 == IF stored = Null THEN initialState ELSE Spread(initialState, stored)
  IN <<s0>> \o loadFromStorage(s0)


----------------------------------------------------------------------------
(* Bounds and the arguments the operations are called with *)

MaxPlots == 2

MaxEvents == 3

MaxDate == 3

NoConstruction == [includeConstruction |-> FALSE, constructionCost |-> R(0)]

WithConstruction == [includeConstruction |-> TRUE, constructionCost |-> R(60)]

\* addPlot's argument: a plot without id.  The first caller fills the derived
\* fields in from size, price and down payment; the second leaves them at 0
\* for the store to compute and includes a construction cost
PlotInputs ==
  {[size                  |-> R(c.size),
    pricePerSqFt          |-> R(10),
    totalCost             |-> R(c.totalCost),
    downPaymentPercentage |-> R(c.dp),
    downPaymentAmount     |-> R(c.dpa),
    loanAmount            |-> R(c.loan),
    interestRate          |-> R(1200),
    loanTenure            |-> R(1),
    monthlyEMI            |-> R(0),
    totalInterest         |-> R(0),
    purchaseYear          |-> R(c.year),
    construction          |-> c.construction] :
   c \in {[size |-> 10, totalCost |-> 100, dp |-> 50, dpa |-> 50, loan |-> 50,
           year |-> CurrentYear, construction |-> NoConstruction],
          [size |-> 20, totalCost |-> 0, dp |-> 20, dpa |-> 0, loan |-> 0,
           year |-> CurrentYear + 1, construction |-> WithConstruction]}}

\* updatePlot's partial updates
PlotUpdates ==
  {[loanAmount |-> R(0)],
   [interestRate |-> R(600)],
   [size |-> R(20)]}

\* updateUserProfile's partial profiles
ProfileUpdates ==
  {[currentEMI |-> R(0)],
   [currentSalary |-> R(1000), salaryGrowthRate |-> R(10)]}

\* an id of the collection, or one that matches nothing
IdArgs(seq) == {seq[i].id : i \in DOMAIN seq} \cup {0}

\* addTimelineEvent's argument: an event without id; plotId 0 is no plot
EventInputs ==
  {[date |-> [kind |-> "Date", t |-> t], plotId |-> pid] :
     t \in 1..MaxDate, pid \in {0} \cup {plots[i].id : i \in DOMAIN plots}}

EventUpdates == {[date |-> [kind |-> "Date", t |-> t]] : t \in 1..MaxDate}

Tabs == {"dashboard", "timeline"}

----------------------------------------------------------------------------
(* The state machine *)

\* the state an operation leaves: the last one it published, or the state it
\* started from if its producer threw before any set
Last(sets, s) == IF sets = <<>> THEN s ELSE sets[Len(sets)]

\* an operation published `sets`: the store is left in the last of them, and
\* persist writes the item after every set
Commit(sets) ==
  \E s \in {Last(sets, State)} :
     /\ userProfile' = s.userProfile
     /\ plots' = s.plots
     /\ currentMetrics' = s.currentMetrics
     /\ salaryProjections' = s.salaryProjections
     /\ timelineEvents' = s.timelineEvents
     /\ activeTab' = s.activeTab
     /\ isMobileNavOpen' = s.isMobileNavOpen
     /\ isLoading' = s.isLoading
     /\ dashboardChartData' = s.dashboardChartData
     /\ timelineChartData' = s.timelineChartData
     /\ scenarioChartData' = s.scenarioChartData
     /\ foirChartData' = s.foirChartData
     /\ storage' = IF sets = <<>> THEN storage ELSE partialize(s)
     /\ call' = call

Init ==
  /\ userProfile = initialState.userProfile
  /\ plots = initialState.plots
  /\ currentMetrics = initialState.currentMetrics
  /\ salaryProjections = initialState.salaryProjections
  /\ timelineEvents = initialState.timelineEvents
  /\ activeTab = initialState.activeTab
  /\ isMobileNavOpen = initialState.isMobileNavOpen
  /\ isLoading = initialState.isLoading
  /\ dashboardChartData = initialState.dashboardChartData
  /\ timelineChartData = initialState.timelineChartData
  /\ scenarioChartData = initialState.scenarioChartData
  /\ foirChartData = initialState.foirChartData
  /\ storage = Null
  /\ call = Null

UpdateUserProfile ==
  \E profile \in ProfileUpdates : Commit(updateUserProfile(State, profile))

\* partial updates that carry an id: Partial<PlotData> has every field of a plot
IdentityUpdates == {[id |-> i] : i \in 1..(MaxPlots + 1)}

AddPlot ==
  /\ Len(plots) < MaxPlots
  /\ \E plotData \in PlotInputs : Commit(addPlot(State, plotData))

UpdatePlot ==
  \E id \in IdArgs(plots), updates \in PlotUpdates :
    Commit(updatePlot(State, id, updates))

DeletePlot ==
  \E id \in IdArgs(plots) : Commit(deletePlot(State, id))

AddTimelineEvent ==
  /\ Len(timelineEvents) < MaxEvents
  /\ \E event \in EventInputs : Commit(addTimelineEvent(State, event))

UpdateTimelineEvent ==
  \E id \in IdArgs(timelineEvents), updates \in EventUpdates :
    Commit(updateTimelineEvent(State, id, updates))

DeleteTimelineEvent ==
  \E id \in IdArgs(timelineEvents) : Commit(deleteTimelineEvent(State, id))

SetActiveTab == \E tab \in Tabs : Commit(setActiveTab(State, tab))

SetMobileNavOpen == \E open \in BOOLEAN : Commit(setMobileNavOpen(State, open))

SetLoading == \E loading \in BOOLEAN : Commit(setLoading(State, loading))

LoadFromStorage == Commit(loadFromStorage(State))

ResetData == Commit(resetData(State))

\* a page load: the store is built again from the stored item
Rehydrate == Commit(rehydrate(storage))

Next ==
  \/ UpdateUserProfile
  \/ AddPlot
  \/ UpdatePlot
  \/ DeletePlot
  \/ AddTimelineEvent
  \/ UpdateTimelineEvent
  \/ DeleteTimelineEvent
  \/ SetActiveTab
  \/ SetMobileNavOpen
  \/ SetLoading
  \/ LoadFromStorage
  \/ ResetData
  \/ Rehydrate

Spec == Init /\ [][Next]_vars

\* one session of edits: the profile and the plots are changed, nothing is
\* loaded again
NextMutations ==
  \/ UpdateUserProfile
  \/ AddPlot
  \/ UpdatePlot
  \/ DeletePlot
  \/ ResetData

SpecMutations == Init /\ [][NextMutations]_vars

\* sessions across page loads: plots come and go as added, and the store is
\* loaded again from what was persisted
NextRestore ==
  \/ UpdateUserProfile
  \/ AddPlot
  \/ DeletePlot
  \/ LoadFromStorage
  \/ ResetData
  \/ Rehydrate

SpecRestore == Init /\ [][NextRestore]_vars

\* the timeline operations alone, across page loads
NextTimeline ==
  \/ AddTimelineEvent
  \/ UpdateTimelineEvent
  \/ DeleteTimelineEvent
  \/ ResetData
  \/ Rehydrate

SpecTimeline == Init /\ [][NextTimeline]_vars

\* the plots are entered before the first timeline event
EnterPlot ==
  /\ timelineEvents = <<>>
  /\ AddPlot

\* the events a session on both collections adds to its timeline
MaxMilestones == 2

\* an event is added to a timeline that is not full yet
AddMilestone ==
  /\ Len(timelineEvents) < MaxMilestones
  /\ AddTimelineEvent

\* one session on both collections: plots are entered, then the timeline is
\* edited, its events naming plots by id, and plots are deleted at any time
NextCollections ==
  \/ EnterPlot
  \/ DeletePlot
  \/ AddMilestone
  \/ UpdateTimelineEvent
  \/ DeleteTimelineEvent

SpecCollections == Init /\ [][NextCollections]_vars

----------------------------------------------------------------------------
(* The calculators called on their own: the call is drawn, then answered *)

\* FOIR values on, next to and away from the thresholds, and NaN
FOIRValues == {NaN, R(0), R(20), R(21), R(30), R(31), R(40), R(41), R(45)}

ProjectedFOIRValues == {R(0), R(35), R(36), R(45), R(50)}

AgeValues == {R(50), R(60), R(61), R(65), R(67)}

\* calculateRiskLevel's arguments
RiskArgs == FOIRValues \X ProjectedFOIRValues \X AgeValues \X BOOLEAN

\* principal, interestRate, tenure: degenerate, very small and ordinary
LoanArgs ==
  {R(-1), R(0), Div(R(1), R(4)), R(1), R(4)} \X {R(-1), R(0), R(1200)}
     \X {R(-1), R(0), R(1), R(2)}

\* monthlyIncome, maxFOIR, interestRate, tenure, existingEMI
MaxLoanArgs ==
  {R(1), R(4), R(10)} \X {R(40), R(100)} \X {R(1200)} \X {R(1), R(2)}
     \X {R(0), R(1), R(5)}

\* a call not answered yet: result holds what was returned, once it was
Call(fn, args) == [fn |-> fn, args |-> args, result |-> <<>>]

\* loans over half a year and over a year and a half
PartYearLoanArgs == {R(1), R(4)} \X {R(1200)} \X {Div(R(1), R(2)), Div(R(3), R(2))}

\* calculateMaxLoanAmount at a rate of 0, a tenure of 0 and an income of 0
ZeroMaxLoanArgs ==
  {R(0), R(10)} \X {R(40)} \X {R(0), R(1200)} \X {R(0), R(1)} \X {R(0)}

\* generateAmortizationSchedule's principal, interestRate, tenure
ScheduleArgs == {R(0), R(4)} \X {R(0), R(1200)} \X {R(0), R(1)}

\* calculateMonthlySavings' targetAmount, timeInYears, currentSavings, interestRate
SavingsArgs == {R(100)} \X {R(0), R(1)} \X {R(0), R(10)} \X {R(0), R(1200)}

\* calculateFOIR's monthlyEMI, monthlyIncome
FOIRArgs == {R(0), R(20600)} \X {R(0), R(88000)}

\* calculatePlotTotalCost's size, pricePerSqFt, registrationRate, stampDutyRate,
\* otherCharges; the rates 1 and 5 and the charges 0 are the defaults
PlotCostArgs ==
  {R(0), R(1), Div(R(5), R(2)), R(5), R(10)} \X {R(3), R(10)} \X {R(0), R(1), R(10)}
    \X {R(5), R(7)} \X {R(0), Div(R(1), R(2)), R(100)}

\* the inputs of validateFinancialInputs: no field, one field, or salary,
\* interestRate and tenure together, each at, inside and outside its limits
ValidationInputs ==
  LET Fields == {"salary", "emi", "plotSize", "pricePerSqFt", "downPayment",
                 "interestRate", "tenure"}
      Values == {NaN, R(-1), R(0), Div(R(1), R(2)), R(1), R(50), R(51), R(100), R(101)}
      Few    == {R(0), Div(R(1), R(2)), R(20), R(51)}
  IN {<<>>}
     \cup {[f \in {field} |-> v] : field \in Fields, v \in Values}
     \cup {[f \in {"salary", "interestRate", "tenure"} |->
              CASE f = "salary" -> s [] f = "interestRate" -> r [] OTHER -> t] :
           s \in Few, r \in Few, t \in Few}

\* calculateOptimalDownPayment's totalCost, availableFunds, interestRate, tenure,
\* monthlyIncome, maxFOIR
DownPaymentArgs ==
  {R(0), R(100)} \X {R(0), R(20), R(50)} \X {R(1200)} \X {R(1)}
    \X {R(-1000), R(0), R(100), R(1000)} \X {R(40)}

\* the passes through the search loop's body that a run of the model follows
MaxIterations == 110

\* calculateOptimalDownPayment entered: at the loop's test with dp = 0 and
\* minDownPayment = 0; iterations counts the passes through the loop's body
DownPaymentCall(args) ==
  [fn |-> "calculateOptimalDownPayment", args |-> args, result |-> <<>>,
   pc |-> "search", dp |-> R(0), minDownPayment |-> R(0), iterations |-> 0]

\* the profiles calculateMetrics is called on: salary and existing EMI, 0 included
MetricsArgs ==
  {<<[DEFAULT_USER_PROFILE EXCEPT !.currentSalary = salary, !.currentEMI = emi]>> :
     salary \in {R(0), R(88000)}, emi \in {R(0), R(20600)}}

Calls ==
  {Call("calculateRiskLevel", a) : a \in RiskArgs}
    \cup {Call("riskLevel", <<f>>) : f \in FOIRValues}
    \cup {Call("calculateEMI", a) : a \in LoanArgs \cup PartYearLoanArgs}
    \cup {Call("calculateLoanEMI", a) : a \in LoanArgs \cup PartYearLoanArgs}
    \cup {Call("calculateMaxLoanAmount", a) : a \in MaxLoanArgs \cup ZeroMaxLoanArgs}
    \cup {Call("generateAmortizationSchedule", a) : a \in ScheduleArgs}
    \cup {Call("calculateMonthlySavings", a) : a \in SavingsArgs}
    \cup {Call("calculateFOIR", a) : a \in FOIRArgs}
    \cup {Call("calculatePlotTotalCost", a) : a \in PlotCostArgs}
    \cup {Call("validateFinancialInputs", <<a>>) : a \in ValidationInputs}
    \cup {Call("calculateMetrics", a) : a \in MetricsArgs}
    \cup {DownPaymentCall(a) : a \in DownPaymentArgs}

InitCalculators ==
  /\ userProfile = initialState.userProfile
  /\ plots = initialState.plots
  /\ currentMetrics = initialState.currentMetrics
  /\ salaryProjections = initialState.salaryProjections
  /\ timelineEvents = initialState.timelineEvents
  /\ activeTab = initialState.activeTab
  /\ isMobileNavOpen = initialState.isMobileNavOpen
  /\ isLoading = initialState.isLoading
  /\ dashboardChartData = initialState.dashboardChartData
  /\ timelineChartData = initialState.timelineChartData
  /\ scenarioChartData = initialState.scenarioChartData
  /\ foirChartData = initialState.foirChartData
  /\ storage = Null
  /\ call \in Calls

\* the call returns
Return(fn, result) ==
  /\ call.fn = fn
  /\ call.result = <<>>
  /\ call' = [call EXCEPT !.result = <<result>>]
  /\ UNCHANGED <<userProfile, plots, currentMetrics, salaryProjections,
                 timelineEvents, activeTab, isMobileNavOpen, isLoading,
                 dashboardChartData, timelineChartData, scenarioChartData,
                 foirChartData, storage>>

CalculateRiskLevel ==
  /\ call.fn = "calculateRiskLevel"
  /\ Return("calculateRiskLevel",
            calculateRiskLevel(call.args[1], call.args[2], call.args[3], call.args[4]))

DeriveRiskLevel ==
  /\ call.fn = "riskLevel"
  /\ Return("riskLevel", StoreRiskLevel(call.args[1]))

CalculateEMI ==
  /\ call.fn = "calculateEMI"
  /\ Return("calculateEMI", calculateEMI(call.args[1], call.args[2], call.args[3]))

CalculateLoanEMI ==
  /\ call.fn = "calculateLoanEMI"
  /\ Return("calculateLoanEMI",
            calculateLoanEMI(call.args[1], call.args[2], call.args[3]))

CalculateMaxLoanAmount ==
  /\ call.fn = "calculateMaxLoanAmount"
  /\ Return("calculateMaxLoanAmount",
            calculateMaxLoanAmount(call.args[1], call.args[2], call.args[3],
                                   call.args[4], call.args[5]))

GenerateAmortizationSchedule ==
  /\ call.fn = "generateAmortizationSchedule"
  /\ Return("generateAmortizationSchedule",
            generateAmortizationSchedule(call.args[1], call.args[2], call.args[3]))

CalculateMonthlySavings ==
  /\ call.fn = "calculateMonthlySavings"
  /\ Return("calculateMonthlySavings",
            calculateMonthlySavings(call.args[1], call.args[2], call.args[3],
                                    call.args[4]))

CalculateFOIR ==
  /\ call.fn = "calculateFOIR"
  /\ Return("calculateFOIR", calculateFOIR(call.args[1], call.args[2]))

CalculatePlotTotalCost ==
  /\ call.fn = "calculatePlotTotalCost"
  /\ Return("calculatePlotTotalCost",
            calculatePlotTotalCost(call.args[1], call.args[2], call.args[3],
                                   call.args[4], call.args[5]))

ValidateFinancialInputs ==
  /\ call.fn = "validateFinancialInputs"
  /\ Return("validateFinancialInputs", validateFinancialInputs(call.args[1]))

\* the store's calculateMetrics on a store holding the profile and no plots
CalculateMetrics ==
  /\ call.fn = "calculateMetrics"
  /\ Return("calculateMetrics",
            calculateMetrics([initialState EXCEPT !.userProfile = call.args[1]])
              .currentMetrics)

\* the call record changes, the store does not
Step(next) ==
  /\ call' = next
  /\ UNCHANGED <<userProfile, plots, currentMetrics, salaryProjections,
                 timelineEvents, activeTab, isMobileNavOpen, isLoading,
                 dashboardChartData, timelineChartData, scenarioChartData,
                 foirChartData, storage>>

\* one pass of calculateOptimalDownPayment's loop: the test dp <= totalCost,
\* then the body, which breaks with minDownPayment = dp or goes on to
\* dp + totalCost * 0.01
SearchDownPayment ==
  /\ call.fn = "calculateOptimalDownPayment"
  /\ call.pc = "search"
  /\ call.iterations < MaxIterations
  /\ Le(call.dp, call.args[1])
  /\ LET totalCost  == call.args[1]
         maxEMI     == Div(Mul(call.args[5], call.args[6]), R(100))
         loanAmount == Sub(totalCost, call.dp)
         emi        == calculateEMI(loanAmount, call.args[3], call.args[4]).monthlyEMI
     IN IF Le(emi, maxEMI)
          THEN Step([call EXCEPT !.minDownPayment = call.dp,
                                 !.pc = "found",
                                 !.iterations = @ + 1])
          ELSE Step([call EXCEPT !.dp = Add(@, Mul(totalCost, Div(R(1), R(100)))),
                                 !.iterations = @ + 1])

\* the loop's test fails: dp <= totalCost is false
EndSearch ==
  /\ call.fn = "calculateOptimalDownPayment"
  /\ call.pc = "search"
  /\ ~Le(call.dp, call.args[1])
  /\ Step([call EXCEPT !.pc = "found"])

\* calculateOptimalDownPayment after its loop
CalculateOptimalDownPayment ==
  /\ call.fn = "calculateOptimalDownPayment"
  /\ call.pc = "found"
  /\ LET totalCost          == call.args[1]
         availableFunds     == call.args[2]
         optimalDownPayment ==
           Max2(call.minDownPayment,
                Min2(availableFunds, Mul(totalCost, Div(R(30), R(100)))))
         optimalPercentage  == Mul(Div(optimalDownPayment, totalCost), R(100))
         reasoning ==
           IF ~IsNaN(optimalDownPayment) /\ optimalDownPayment = call.minDownPayment
             THEN "Minimum down payment to meet FOIR requirements"
           ELSE IF ~IsNaN(optimalDownPayment) /\ optimalDownPayment = availableFunds
             THEN "Using all available funds for down payment"
           ELSE "Optimal balance between EMI and liquidity"
     IN Step([call EXCEPT !.pc = "done",
                          !.result = <<[optimalDownPayment |-> Round(optimalDownPayment),
                                        optimalPercentage  |-> Round(optimalPercentage),
                                        reasoning          |-> reasoning]>>])

NextCalculators ==
  \/ CalculateRiskLevel
  \/ DeriveRiskLevel
  \/ CalculateEMI
  \/ CalculateLoanEMI
  \/ CalculateMaxLoanAmount
  \/ GenerateAmortizationSchedule
  \/ CalculateMonthlySavings
  \/ CalculateFOIR
  \/ CalculateMetrics
  \/ ValidateFinancialInputs
  \/ CalculatePlotTotalCost
  \/ SearchDownPayment
  \/ EndSearch
  \/ CalculateOptimalDownPayment

SpecCalculators == InitCalculators /\ [][NextCalculators]_vars
----------------------------------------------------------------------------
(* Properties.  An operation is judged on the states it publishes when it  *)
(* is called on the current state, for every reachable state and argument. *)

\* the four operations that change an input of the derived state, called on the
\* current state with every argument: Q holds of what each of them publishes
EveryMutation(Q(_)) ==
  /\ \A profile \in ProfileUpdates : Q(updateUserProfile(State, profile))
  /\ \A plotData \in PlotInputs : Q(addPlot(State, plotData))
  /\ \A id \in IdArgs(plots), updates \in PlotUpdates : Q(updatePlot(State, id, updates))
  /\ \A id \in IdArgs(plots) : Q(deletePlot(State, id))

\* the sum of field f over the plots ps
RECURSIVE Total(_, _)
Total(ps, f) ==
  IF ps = <<>> THEN R(0)
  ELSE Add(Total(SubSeq(ps, 1, Len(ps) - 1), f), ps[Len(ps)][f])

\* the four totals of s.currentMetrics are the sums over s.plots and s.userProfile
MetricsAreSums(s) ==
  /\ s.currentMetrics.totalProjectCost = Total(s.plots, "totalCost")
  /\ s.currentMetrics.totalLoanAmount = Total(s.plots, "loanAmount")
  /\ s.currentMetrics.totalInterest = Total(s.plots, "totalInterest")
  /\ s.currentMetrics.totalMonthlyEMI =
       Add(Total(s.plots, "monthlyEMI"), s.userProfile.currentEMI)

MetricsAreSumsAfter(sets) == MetricsAreSums(Last(sets, State))

\* C1: after updateUserProfile, addPlot, updatePlot or deletePlot returns, from
\* any reachable state, currentMetrics.totalProjectCost, totalLoanAmount and
\* totalInterest are the sums of the stored plots' totalCost, loanAmount and
\* totalInterest, and totalMonthlyEMI is the sum of their monthlyEMI plus
\* userProfile.currentEMI
C1_MetricsAreSumsOfStoredPlots == EveryMutation(MetricsAreSumsAfter)

\* two plots and a changed profile EMI are stored, with the totals summed over them
C1_Witness ==
  /\ Len(plots) = 2
  /\ userProfile.currentEMI = R(0)
  /\ plots[1].monthlyEMI # R(0)
  /\ plots[2].monthlyEMI # R(0)
  /\ MetricsAreSums(State)

\* the inputs of p differ from the current ones, and p's metrics are those of its inputs
NoStaleMetricsPublished(sets) ==
  \A i \in DOMAIN sets :
    (sets[i].plots # plots \/ sets[i].userProfile # userProfile)
      => sets[i].currentMetrics = calculateMetrics(sets[i]).currentMetrics

\* C2: no state published by a `set` call during updateUserProfile, addPlot,
\* updatePlot or deletePlot has the changed profile or plot list together with
\* metrics that are not those of the changed inputs
C2_NoPublishedStateHasStaleMetrics == EveryMutation(NoStaleMetricsPublished)

\* plot's monthlyEMI and totalInterest are calculateLoanEMI of its own loan fields
EMIMatchesLoan(plot) ==
  LET loanResult == calculateLoanEMI(plot.loanAmount, plot.interestRate, plot.loanTenure)
  IN /\ plot.monthlyEMI = loanResult.monthlyEMI
     /\ plot.totalInterest = loanResult.totalInterest

\* C3: in every reachable state every stored plot's monthlyEMI and totalInterest
\* are the amortization result of that plot's stored loanAmount, interestRate
\* and loanTenure
C3_StoredEMIMatchesStoredLoan == \A i \in DOMAIN plots : EMIMatchesLoan(plots[i])

\* size * pricePerSqFt, plus the construction cost when construction is included
CostWithConstruction(p) ==
  Add(Mul(p.size, p.pricePerSqFt),
      IF p.construction.includeConstruction THEN p.construction.constructionCost ELSE R(0))

\* C4: after addPlot(p) the appended record has totalCost = size * pricePerSqFt
\* plus the construction cost when included, downPaymentAmount = totalCost *
\* downPaymentPercentage / 100 and loanAmount = totalCost - downPaymentAmount,
\* whatever totalCost, downPaymentAmount and loanAmount p carried
C4_AddPlotDerivesCostDownPaymentLoan ==
  \A p \in PlotInputs :
    LET after == Last(addPlot(State, p), State).plots
        q     == after[Len(after)]
    IN /\ Len(after) = Len(plots) + 1
       /\ q.totalCost = CostWithConstruction(p)
       /\ q.downPaymentAmount = Div(Mul(q.totalCost, p.downPaymentPercentage), R(100))
       /\ q.loanAmount = Sub(q.totalCost, q.downPaymentAmount)

LoanFields == {"loanAmount", "interestRate", "loanTenure"}

\* field f of the plot is left as it was unless updates carries it
KeptUnlessGiven(before, after, updates, f) ==
  IF f \in DOMAIN updates THEN after[f] = updates[f] ELSE after[f] = before[f]

\* C5: updatePlot(id, updates) with none of loanAmount, interestRate, loanTenure
\* in updates leaves the plot's totalCost, downPaymentAmount, loanAmount,
\* monthlyEMI and totalInterest as they were unless updates carries them; with
\* a loan field in updates, totalCost, downPaymentAmount and loanAmount are
\* still left as they were unless updates carries them
C5_UpdatePlotLeavesDerivedFields ==
  \A i \in DOMAIN plots, updates \in PlotUpdates :
    LET before == plots[i]
        after  == Last(updatePlot(State, before.id, updates), State).plots[i]
    IN /\ \A f \in {"totalCost", "downPaymentAmount", "loanAmount"} :
            KeptUnlessGiven(before, after, updates, f)
       /\ (DOMAIN updates \cap LoanFields = {})
            => \A f \in {"monthlyEMI", "totalInterest"} :
                 KeptUnlessGiven(before, after, updates, f)

\* a stored plot whose size was updated keeps the total cost, down payment and
\* loan it was added with
C5_Witness ==
  \E i \in DOMAIN plots :
    /\ plots[i].size = R(20)
    /\ plots[i].totalCost = R(100)
    /\ plots[i].downPaymentAmount = R(50)
    /\ plots[i].loanAmount = R(50)
    /\ plots[i].monthlyEMI # R(0)

\* C6: after updatePlot(id, updates) on a stored plot with loanAmount,
\* interestRate or loanTenure in updates, whatever the value given (0 too), the
\* plot's monthlyEMI and totalInterest are the amortization result of its
\* loanAmount, interestRate and loanTenure after the update
C6_LoanUpdateRecomputesEMI ==
  \A i \in DOMAIN plots, updates \in PlotUpdates :
    (DOMAIN updates \cap LoanFields # {})
      => EMIMatchesLoan(Last(updatePlot(State, plots[i].id, updates), State).plots[i])

\* C7: timelineEvents is sorted ascending by date: each element's date is <=
\* the next one's
C7_TimelineSortedByDate ==
  \A i \in 1..(Len(timelineEvents) - 1) :
    timelineEvents[i].date.t <= timelineEvents[i + 1].date.t

\* three events on three dates, the last one added standing first
C7_Witness ==
  /\ Len(timelineEvents) = 3
  /\ timelineEvents[1].date.t < timelineEvents[2].date.t
  /\ timelineEvents[2].date.t < timelineEvents[3].date.t
  /\ timelineEvents[1].id > timelineEvents[2].id
  /\ timelineEvents[1].id > timelineEvents[3].id

\* each chart view of s is what its builder gives for s's derived state
ChartsConsistent(s) ==
  /\ s.dashboardChartData = updateDashboardChart(s).dashboardChartData
  /\ s.timelineChartData = updateTimelineChart(s).timelineChartData
  /\ s.scenarioChartData = updateScenarioChart(s).scenarioChartData
  /\ s.foirChartData = updateFoirChart(s).foirChartData

\* each chart view of s that has been built is what its builder gives for s's
\* derived state
BuiltChartsConsistent(s) ==
  /\ s.dashboardChartData # Null
       => s.dashboardChartData = updateDashboardChart(s).dashboardChartData
  /\ s.timelineChartData # Null
       => s.timelineChartData = updateTimelineChart(s).timelineChartData
  /\ s.scenarioChartData # Null
       => s.scenarioChartData = updateScenarioChart(s).scenarioChartData
  /\ s.foirChartData # Null
       => s.foirChartData = updateFoirChart(s).foirChartData

BuiltChartsConsistentAfter(sets) == BuiltChartsConsistent(Last(sets, State))

\* C8: after updateUserProfile, addPlot, updatePlot or deletePlot returns, the
\* chart views agree with the derived state: dashboardChartData with
\* salaryProjections, timelineChartData with plots, scenarioChartData with the
\* profile's salary and growth rate, foirChartData with currentMetrics.currentFOIR
\* (stated for the views the store has built; one never built is not counted)
C8_ChartsConsistentAfterMutation == EveryMutation(BuiltChartsConsistentAfter)

\* entry 0 is the salary itself, and each entry is the one before it grown by
\* salaryGrowthRate percent
CompoundGrowth(projections, profile) ==
  /\ projections[1].salary = ToDec(profile.currentSalary)
  /\ \A i \in 1..(Len(projections) - 1) :
       DecMul(projections[i + 1].salary, DecOfInt(100)) =
         DecMul(projections[i].salary, ToDec(Add(R(100), profile.salaryGrowthRate)))

\* s.salaryProjections is the 10-year projection of s.userProfile
ProjectionsOfProfile(s) ==
  /\ Len(s.salaryProjections) = 10
  /\ \A i \in 0..9 : s.salaryProjections[i + 1].year = CurrentYear + i
  /\ CompoundGrowth(s.salaryProjections, s.userProfile)

\* the derived part of a state: metrics, projections and the four charts
Derived(s) ==
  [currentMetrics     |-> s.currentMetrics,
   salaryProjections  |-> s.salaryProjections,
   dashboardChartData |-> s.dashboardChartData,
   timelineChartData  |-> s.timelineChartData,
   scenarioChartData  |-> s.scenarioChartData,
   foirChartData      |-> s.foirChartData]

\* C9: the stored item holds userProfile, plots and timelineEvents and nothing
\* else; a restore leaves these inputs as stored, with the metrics, the
\* projections and the four charts those of the restored inputs; and
\* loadFromStorage gives the same derived state whatever derived values the
\* store held before
C9_RestoreRecomputesDerivedState ==
  LET restored == Last(rehydrate(storage), State)
      loaded   == Last(loadFromStorage(State), State)
      clean    == Last(loadFromStorage(Spread(initialState,
                        [userProfile |-> userProfile, plots |-> plots])), State)
  IN /\ storage # Null =>
          /\ DOMAIN storage = {"userProfile", "plots", "timelineEvents"}
          /\ storage.userProfile = userProfile
          /\ storage.plots = plots
          /\ restored.userProfile = storage.userProfile
          /\ restored.plots = storage.plots
     /\ MetricsAreSums(restored)
     /\ ProjectionsOfProfile(restored)
     /\ ChartsConsistent(restored)
     /\ Derived(loaded) = Derived(clean)

\* a store restored with two plots and a changed profile: all four charts are
\* built and the FOIR chart shows the FOIR of the restored inputs
C9_Witness ==
  /\ Len(plots) = 2
  /\ userProfile.currentSalary = R(1000)
  /\ storage # Null
  /\ scenarioChartData # Null
  /\ foirChartData # Null
  /\ MetricsAreSums(State)
  /\ ChartsConsistent(State)

ProjectionsOfProfileAfter(sets) == ProjectionsOfProfile(Last(sets, State))

\* C10: after calculateSalaryProjections, and after every updateUserProfile,
\* salaryProjections has exactly 10 entries, entry i has year currentYear + i and
\* salary currentSalary * (1 + salaryGrowthRate / 100)^i of the current profile
C10_TenProjectionsOfCurrentProfile ==
  /\ ProjectionsOfProfile(calculateSalaryProjections(State))
  /\ \A profile \in ProfileUpdates :
       ProjectionsOfProfileAfter(updateUserProfile(State, profile))

\* the profile was changed from one with projections: the 10 entries stored are
\* those of the new salary and growth rate
C10_Witness ==
  /\ userProfile.currentSalary = R(1000)
  /\ userProfile.salaryGrowthRate = R(10)
  /\ userProfile.currentEMI = R(0)
  /\ Len(salaryProjections) = 10
  /\ salaryProjections[1].salary = DecOfInt(1000)
  /\ salaryProjections[2].salary = DecOfInt(1100)
  /\ salaryProjections[3].salary = DecOfInt(1210)

\* C11: every entry of salaryProjections has emiCapacity = salary * maxFOIR / 100
\* and availableCapacity = emiCapacity - currentMetrics.totalMonthlyEMI (the plot
\* EMIs plus the profile's existing EMI), so that the first entry's
\* availableCapacity is currentMetrics.availableEMICapacity
C11_ProjectionCapacityNetOfTotalEMI ==
  salaryProjections # <<>> =>
    /\ \A i \in DOMAIN salaryProjections :
         /\ salaryProjections[i].emiCapacity =
              DecDiv100(DecMul(salaryProjections[i].salary, ToDec(userProfile.maxFOIR)))
         /\ salaryProjections[i].availableCapacity =
              DecSub(salaryProjections[i].emiCapacity,
                     ToDec(currentMetrics.totalMonthlyEMI))
    /\ salaryProjections[1].availableCapacity =
         ToDec(currentMetrics.availableEMICapacity)

\* the FOIR of s.currentMetrics is calculateFOIR of its total EMI and the salary
FOIRIsCalculateFOIR(s) ==
  s.currentMetrics.currentFOIR =
    calculateFOIR(s.currentMetrics.totalMonthlyEMI, s.userProfile.currentSalary)

FOIRIsCalculateFOIRAfter(sets) == FOIRIsCalculateFOIR(Last(sets, State))

\* C12: the currentFOIR that updateUserProfile, addPlot, updatePlot and
\* deletePlot publish is calculateFOIR(totalMonthlyEMI, currentSalary): 100 times
\* the total EMI over the salary rounded to two decimals, and 0 when the salary
\* is not positive
C12_PublishedFOIRIsCalculateFOIR == EveryMutation(FOIRIsCalculateFOIRAfter)

\* the capacity figures of s.currentMetrics are those of s's profile and plots,
\* negative ones included
CapacityOfInputs(s) ==
  LET obligations == Add(Total(s.plots, "monthlyEMI"), s.userProfile.currentEMI)
      ceiling     == Div(Mul(s.userProfile.currentSalary, s.userProfile.maxFOIR), R(100))
  IN /\ s.currentMetrics.availableEMICapacity = Sub(ceiling, obligations)
     /\ Lt(ceiling, obligations) => Lt(s.currentMetrics.availableEMICapacity, R(0))
     /\ s.currentMetrics.totalDebtCapacity =
          Mul(s.currentMetrics.availableEMICapacity, R(240))
     /\ (/\ s.userProfile.currentSalary = R(88000)
         /\ s.userProfile.maxFOIR = R(40)
         /\ s.userProfile.currentEMI = R(20600)
         /\ s.plots = <<>>)
          => s.currentMetrics.availableEMICapacity = R(14600)

CapacityOfInputsAfter(sets) == CapacityOfInputs(Last(sets, State))

\* C13: after every mutation currentMetrics.availableEMICapacity is
\* currentSalary * maxFOIR / 100 - totalMonthlyEMI, negative when the
\* obligations exceed the ceiling, and totalDebtCapacity is 240 times it; for
\* salary 88000, maxFOIR 40, existing EMI 20600 and no plots it is 14600
C13_AvailableCapacityUnclamped == EveryMutation(CapacityOfInputsAfter)

\* obligations above the ceiling with a plot stored: the published capacity is
\* negative and the debt capacity is 240 times it
C13_Witness ==
  /\ plots # <<>>
  /\ plots[1].monthlyEMI # R(0)
  /\ userProfile.currentSalary = R(1000)
  /\ currentMetrics.availableEMICapacity = R(-20250)
  /\ currentMetrics.totalDebtCapacity = R(-4860000)
  /\ CapacityOfInputs(State)

\* the points of a signal: one for each threshold the value is above
PointsAbove(x, thresholds) == Cardinality({t \in thresholds : Gt(x, R(t))})

\* the level of the additive score of the four signals
LevelOfScore(currentFOIR, projectedFOIR, ageAtLoanEnd, hasEmergencyFund) ==
  LET score == PointsAbove(currentFOIR, {20, 30, 40})
                 + PointsAbove(projectedFOIR, {35, 45})
                 + PointsAbove(ageAtLoanEnd, {60, 65})
                 - (IF hasEmergencyFund THEN 1 ELSE 0)
  IN IF score < 2 THEN "low" ELSE IF score \in {2, 3} THEN "medium" ELSE "high"

\* a call of fn has returned
Returned(fn) == call # Null /\ call.fn = fn /\ call.result # <<>>

\* C14: calculateRiskLevel returns the level of the additive score: current
\* FOIR gives 0/1/2/3 points (above 20, 30, 40), projected FOIR 0/1/2 (above 35,
\* 45), age at loan end 0/1/2 (above 60, 65), an emergency fund takes 1 off;
\* below 2 is low, 2 or 3 medium, 4 and more high
C14_RiskLevelIsLevelOfScore ==
  Returned("calculateRiskLevel") =>
    call.result[1] = LevelOfScore(call.args[1], call.args[2], call.args[3], call.args[4])

\* the scenario of the claim: FOIR 45, projected FOIR 50, age 67, no emergency
\* fund was answered high
C14_Witness ==
  /\ Returned("calculateRiskLevel")
  /\ call.args = <<R(45), R(50), R(67), FALSE>>
  /\ call.result = <<"high">>

\* the order low < medium < high
Rank(level) == IF level = "low" THEN 1 ELSE IF level = "medium" THEN 2 ELSE 3

\* C15: the risk level never falls as the FOIR rises: with the projected FOIR,
\* the age and the emergency fund held fixed, calculateRiskLevel at a FOIR f1
\* below or equal to f2 is not a higher level than at f2; likewise the
\* riskLevel calculateMetrics derives from currentFOIR
C15_RiskLevelMonotonicInFOIR ==
  /\ Returned("calculateRiskLevel") =>
       \A f1 \in FOIRValues :
         Le(f1, call.args[1]) =>
           Rank(calculateRiskLevel(f1, call.args[2], call.args[3], call.args[4]))
             <= Rank(call.result[1])
  /\ Returned("riskLevel") =>
       \A f1 \in FOIRValues :
         Le(f1, call.args[1]) => Rank(StoreRiskLevel(f1)) <= Rank(call.result[1])

\* a FOIR of 41 was answered high where, the other signals equal, a FOIR of 0
\* is low and one of 31 medium
C15_Witness ==
  /\ Returned("calculateRiskLevel")
  /\ call.args = <<R(41), R(36), R(50), FALSE>>
  /\ call.result = <<"high">>
  /\ calculateRiskLevel(R(0), R(36), R(50), FALSE) = "low"
  /\ calculateRiskLevel(R(31), R(36), R(50), FALSE) = "medium"

\* the riskLevel of s.currentMetrics is the one calculateRiskLevel assigns to
\* its currentFOIR when the other signals give no points
RiskLevelIsEvaluators(s) ==
  \A projectedFOIR \in {R(0), R(35)}, ageAtLoanEnd \in {R(50), R(60)} :
    s.currentMetrics.riskLevel =
      calculateRiskLevel(s.currentMetrics.currentFOIR, projectedFOIR, ageAtLoanEnd, FALSE)

RiskLevelIsEvaluatorsAfter(sets) == RiskLevelIsEvaluators(Last(sets, State))

\* C16: the riskLevel published in currentMetrics after a mutation is
\* calculateRiskLevel(currentFOIR, projectedFOIR, ageAtLoanEnd, hasEmergencyFund)
\* for a projected FOIR of at most 35, an age of at most 60 and no emergency fund
C16_PublishedRiskLevelIsEvaluators == EveryMutation(RiskLevelIsEvaluatorsAfter)

\* principal, interestRate or tenure is not positive
Degenerate(args) == Le(args[1], R(0)) \/ Le(args[2], R(0)) \/ Le(args[3], R(0))

\* the all-zero result with no schedule
ZeroResult(result) ==
  /\ result.monthlyEMI = R(0)
  /\ result.totalInterest = R(0)
  /\ result.totalAmount = R(0)
  /\ result.yearlyBreakdown = <<>>

\* C17: called with a principal, an interest rate or a tenure that is not
\* positive, calculateEMI and the store's calculateLoanEMI return monthlyEMI 0,
\* totalInterest 0, totalAmount 0 and an empty yearlyBreakdown
C17_DegenerateLoanIsAllZero ==
  (Returned("calculateEMI") \/ Returned("calculateLoanEMI")) =>
    (Degenerate(call.args) => ZeroResult(call.result[1]))

\* a loan of 4 over 2 years at a rate of 0 was answered with the all-zero result
C17_Witness ==
  /\ Returned("calculateEMI")
  /\ call.args = <<R(4), R(0), R(2)>>
  /\ ZeroResult(call.result[1])

\* |a - b| <= tolerance
Within(a, b, tolerance) == Le(Sub(a, b), tolerance) /\ Le(Sub(b, a), tolerance)

\* C18: for a positive principal, interest rate and tenure, very small
\* principals included, calculateEMI returns monthlyEMI > 0 and
\* totalInterest >= 0, and the principal portions of its yearlyBreakdown add up
\* to the principal, to within a currency unit
C18_PositiveLoanHasPositiveEMI ==
  (Returned("calculateEMI") /\ ~Degenerate(call.args)) =>
    /\ Gt(call.result[1].monthlyEMI, R(0))
    /\ Le(R(0), call.result[1].totalInterest)
    /\ Within(Total(call.result[1].yearlyBreakdown, "principal"), call.args[1], R(1))

\* the schedule b of a loan of `principal` over `tenure` years is well formed
ScheduleWellFormed(b, principal, tenure) ==
  /\ \A i \in DOMAIN b :
       /\ b[i].year = i
       /\ Le(R(0), b[i].endingBalance)
       /\ Le(b[i].endingBalance, b[i].beginningBalance)
  /\ b # <<>> => b[1].beginningBalance = principal
  /\ \A i \in DOMAIN b :
       i > 1 => /\ b[i].beginningBalance = b[i - 1].endingBalance
                /\ b[i - 1].endingBalance # R(0)
  /\ Le(R(Len(b)), tenure)

\* C19: in the yearlyBreakdown of a loan with positive principal, rate and
\* tenure, from calculateEMI and from calculateLoanEMI, every entry has
\* 0 <= endingBalance <= beginningBalance, the first begins at the principal,
\* each later one begins where the one before ended, the years are 1, 2, 3, ...
\* and at most `tenure` many, and no entry follows one that ended at 0
C19_ScheduleWellFormed ==
  ((Returned("calculateEMI") \/ Returned("calculateLoanEMI"))
     /\ ~Degenerate(call.args)) =>
    ScheduleWellFormed(call.result[1].yearlyBreakdown, call.args[1], call.args[3])

\* a loan of 4 over 2 years: two entries, the first from 4 down to 16384/4097,
\* the second from there to 0
C19_Witness ==
  /\ Returned("calculateEMI")
  /\ call.args = <<R(4), R(1200), R(2)>>
  /\ Len(call.result[1].yearlyBreakdown) = 2
  /\ call.result[1].yearlyBreakdown[1].beginningBalance = R(4)
  /\ call.result[1].yearlyBreakdown[1].endingBalance = Div(R(16384), R(4097))
  /\ call.result[1].yearlyBreakdown[2].beginningBalance = Div(R(16384), R(4097))
  /\ call.result[1].yearlyBreakdown[2].endingBalance = R(0)

\* calculateMaxLoanAmount's arguments within the round trip's domain:
\* income > 0, 0 < maxFOIR <= 100, rate > 0, tenure > 0
PositiveTerms(args) ==
  /\ Gt(args[1], R(0))
  /\ Gt(args[2], R(0)) /\ Le(args[2], R(100))
  /\ Gt(args[3], R(0))
  /\ Gt(args[4], R(0))

\* the EMI left under the ceiling: income * maxFOIR / 100 less the existing EMI
AffordableEMI(args) == Sub(Div(Mul(args[1], args[2]), R(100)), args[5])

\* what rounding allows between the EMI fed back and the affordable EMI: half a
\* unit for the EMI and, for the half unit of the principal, half the EMI of a
\* principal of 1
RoundingOf(interestRate, tenure) ==
  LET monthlyRate == Div(Div(interestRate, R(12)), R(100))
      growth      == Pow(Add(R(1), monthlyRate), IntOf(Mul(tenure, R(12))))
  IN Add(Div(R(1), R(2)),
         Div(Div(Mul(monthlyRate, growth), Sub(growth, R(1))), R(2)))

\* the monthlyEMI of calculateEMI on the principal that the call returned
FedBackEMI == calculateEMI(call.result[1], call.args[3], call.args[4]).monthlyEMI

\* C20 as claimed: calculateEMI on the principal that
\* calculateMaxLoanAmount returned, at the same rate and tenure, has a
\* monthlyEMI equal within rounding to income * maxFOIR / 100 minus the
\* existing EMI, whatever the existing EMI
C20_RoundTripAnyExistingEMI ==
  (Returned("calculateMaxLoanAmount") /\ PositiveTerms(call.args)) =>
    Within(FedBackEMI, AffordableEMI(call.args), RoundingOf(call.args[3], call.args[4]))

\* C20: round trip, for income > 0, 0 < maxFOIR <= 100, rate > 0 and tenure > 0:
\* with an existing EMI below income * maxFOIR / 100 (none included),
\* calculateEMI on the principal calculateMaxLoanAmount returned has a
\* monthlyEMI equal within rounding to income * maxFOIR / 100 minus the existing
\* EMI; with an existing EMI at or above it the principal and the monthlyEMI are 0
C20_RoundTripBelowCeiling ==
  (Returned("calculateMaxLoanAmount") /\ PositiveTerms(call.args)) =>
    IF Gt(AffordableEMI(call.args), R(0))
      THEN Within(FedBackEMI, AffordableEMI(call.args),
                  RoundingOf(call.args[3], call.args[4]))
      ELSE call.result[1] = R(0) /\ FedBackEMI = R(0)

\* income 10 at maxFOIR 40 with an existing EMI of 1 over 2 years: the
\* affordable EMI is 3, the principal returned is 3 and its monthlyEMI is 3
C20_Witness ==
  /\ Returned("calculateMaxLoanAmount")
  /\ call.args = <<R(10), R(40), R(1200), R(2), R(1)>>
  /\ call.result = <<R(3)>>
  /\ FedBackEMI = R(3)

\* every number of a schedule row, a yearly entry or a metrics record is finite
FiniteFields(r, fields) == \A f \in fields : IsFinite(r[f])

FiniteRows(rows, fields) == \A i \in DOMAIN rows : FiniteFields(rows[i], fields)

\* the result of the call that returned is a defined finite result
FiniteResult ==
  LET result == call.result[1]
  IN CASE call.fn = "calculateEMI" ->
            /\ FiniteFields(result, {"monthlyEMI", "totalInterest", "totalAmount"})
            /\ FiniteRows(result.yearlyBreakdown,
                          {"beginningBalance", "payment", "principal", "interest",
                           "endingBalance"})
       [] call.fn = "generateAmortizationSchedule" ->
            FiniteRows(result, {"payment", "principal", "interest", "balance"})
       [] call.fn = "calculateMetrics" ->
            FiniteFields(result, {"totalProjectCost", "totalLoanAmount",
                                  "totalMonthlyEMI", "totalInterest", "currentFOIR",
                                  "availableEMICapacity", "totalDebtCapacity",
                                  "loanEndYear"})
       [] OTHER -> IsFinite(result)

\* C21: calculateEMI, calculateMaxLoanAmount, generateAmortizationSchedule,
\* calculateMonthlySavings, calculateFOIR and the store's calculateMetrics
\* return a finite result, never NaN or Infinity, for any numbers, an interest
\* rate of 0, a tenure of 0 and an income of 0 included
C21_CalculatorsReturnFiniteResults ==
  (\/ Returned("calculateEMI")
   \/ Returned("calculateMaxLoanAmount")
   \/ Returned("generateAmortizationSchedule")
   \/ Returned("calculateMonthlySavings")
   \/ Returned("calculateFOIR")
   \/ Returned("calculateMetrics")) => FiniteResult


\* the message validateFinancialInputs has for a field the ranges name
MessageOf(field) ==
  CASE field = "salary"       -> "Salary must be greater than 0"
    [] field = "plotSize"     -> "Plot size must be greater than 0"
    [] field = "interestRate" -> "Interest rate must be between 0 and 50 percent"
    [] field = "tenure"       -> "Loan tenure must be between 1 and 50 years"

\* the ranges: salary > 0, plot size > 0, interest rate 0-50, tenure 1-50
InRange(field, v) ==
  CASE field \in {"salary", "plotSize"} -> Gt(v, R(0))
    [] field = "interestRate"           -> Gt(v, R(0)) /\ Le(v, R(50))
    [] field = "tenure"                 -> Le(R(1), v) /\ Le(v, R(50))

\* outside the range; an interest rate of exactly 0 is left to either reading
\* of "0-50"
OutOfRange(field, v) ==
  /\ ~InRange(field, v)
  /\ ~(field = "interestRate" /\ v = R(0))

\* C22: validateFinancialInputs reports a violation for each supplied field
\* outside its range (salary > 0, interest rate 0-50, tenure 1-50, plot size
\* > 0), reports nothing for a field that is absent or in range, and returns
\* isValid = true exactly when the list of violations is empty
C22_ValidationReportsEachFieldOutOfRange ==
  Returned("validateFinancialInputs") =>
    LET inputs == call.args[1]
        result == call.result[1]
        Reported(field) == \E i \in DOMAIN result.errors :
                              result.errors[i] = MessageOf(field)
    IN /\ \A field \in {"salary", "plotSize", "interestRate", "tenure"} :
            /\ (field \in DOMAIN inputs /\ OutOfRange(field, inputs[field]))
                 => Reported(field)
            /\ (field \notin DOMAIN inputs \/ InRange(field, inputs[field]))
                 => ~Reported(field)
       /\ result.isValid <=> (result.errors = <<>>)


\* the four costs of a call's arguments before any rounding: the base cost
\* size * pricePerSqFt, the two percentages of the base cost alone, and their
\* sum with the other charges
ExactCosts(args) ==
  LET base == Mul(args[1], args[2])
      reg  == Div(Mul(base, args[3]), R(100))
      duty == Div(Mul(base, args[4]), R(100))
  IN [baseCost |-> base, registrationCost |-> reg, stampDuty |-> duty,
      totalCost |-> Add(Add(Add(base, reg), duty), args[5])]

\* the sum of the returned parts and the other charges
SumOfReturned(result, otherCharges) ==
  Add(Add(Add(result.baseCost, result.registrationCost), result.stampDuty), otherCharges)

\* C23 as claimed: the returned values of calculatePlotTotalCost add up,
\* totalCost = baseCost + registrationCost + stampDuty + otherCharges, with
\* registrationCost and stampDuty each a percentage of the base cost alone
C23_ReturnedCostsAddUp ==
  Returned("calculatePlotTotalCost") =>
    LET result == call.result[1]
        exact  == ExactCosts(call.args)
    IN /\ result.totalCost = SumOfReturned(result, call.args[5])
       /\ result.registrationCost = Round(exact.registrationCost)
       /\ result.stampDuty = Round(exact.stampDuty)

\* C23: each returned value of calculatePlotTotalCost is the rounding of its
\* exact value, the exact totalCost being baseCost + registrationCost +
\* stampDuty + otherCharges with registrationCost and stampDuty each a
\* percentage of the base cost alone; the returned totalCost is less than 2
\* away from the sum of the returned parts and the other charges
C23_ReturnedCostsAreRoundedExactCosts ==
  Returned("calculatePlotTotalCost") =>
    LET result == call.result[1]
        exact  == ExactCosts(call.args)
        sum    == SumOfReturned(result, call.args[5])
    IN /\ \A f \in DOMAIN exact : result[f] = Round(exact[f])
       /\ Lt(Sub(sum, result.totalCost), R(2))
       /\ Lt(Sub(result.totalCost, sum), R(2))

\* a plot of 5 at 10 with the default rates: 50 + 0.5 + 2.5 = 53 is returned
\* as 50, 1, 3 and 53
C23_Witness ==
  /\ Returned("calculatePlotTotalCost")
  /\ call.args = <<R(5), R(10), R(1), R(5), R(0)>>
  /\ call.result[1] = [baseCost |-> R(50), registrationCost |-> R(1),
                       stampDuty |-> R(3), totalCost |-> R(53)]


\* salary * (1 + g/100)^5, the five factors written out
AfterFiveYears(salary, g) ==
  LET factor == ToDec(Add(R(1), Div(g, R(100))))
  IN DecMul(DecMul(DecMul(DecMul(DecMul(ToDec(salary), factor), factor), factor),
                   factor), factor)

\* C24: the chart updateScenarioChart produces from the store has the labels
\* Conservative, Moderate, Aggressive and exactly three values in that order,
\* currentSalary * (1 + g/100)^5 for g = salaryGrowthRate - 2,
\* salaryGrowthRate, salaryGrowthRate + 2; with currentSalary >= 0 the three
\* values do not decrease
C24_ScenarioChartIsThreeFiveYearValues ==
  LET chart  == updateScenarioChart(State).scenarioChartData
      data   == chart.datasets[1].data
      salary == userProfile.currentSalary
      growth == userProfile.salaryGrowthRate
  IN /\ chart.labels = <<"Conservative", "Moderate", "Aggressive">>
     /\ Len(chart.datasets) = 1
     /\ DOMAIN data = 1..3
     /\ data[1] = AfterFiveYears(salary, Sub(growth, R(2)))
     /\ data[2] = AfterFiveYears(salary, growth)
     /\ data[3] = AfterFiveYears(salary, Add(growth, R(2)))
     /\ Le(R(0), salary) => DecLe(data[1], data[2]) /\ DecLe(data[2], data[3])

\* loadFromStorage has published the chart of a salary of 1000 growing by 10:
\* 1000 * 1.08^5 < 1000 * 1.1^5 < 1000 * 1.12^5
C24_Witness ==
  /\ userProfile.currentSalary = R(1000)
  /\ userProfile.salaryGrowthRate = R(10)
  /\ scenarioChartData # Null
  /\ scenarioChartData = updateScenarioChart(State).scenarioChartData
  /\ scenarioChartData.datasets[1].data[2] = ToDec(Div(R(161051), R(100)))
  /\ DecLt(scenarioChartData.datasets[1].data[1], scenarioChartData.datasets[1].data[2])
  /\ DecLt(scenarioChartData.datasets[1].data[2], scenarioChartData.datasets[1].data[3])


\* C25: no two plots of the collection share an id, and updatePlot leaves the
\* id of every plot as it was, whatever fields the partial update carries, an
\* id included
C25_PlotIdentityIsStable ==
  /\ \A i, j \in DOMAIN plots : plots[i].id = plots[j].id => i = j
  /\ \A id \in IdArgs(plots), updates \in PlotUpdates \cup IdentityUpdates :
       LET after == Last(updatePlot(State, id, updates), State).plots
       IN /\ DOMAIN after = DOMAIN plots
          /\ \A i \in DOMAIN plots : after[i].id = plots[i].id


\* C26: after resetData the profile is the default profile, plots and
\* timelineEvents are empty, and the derived state follows from them:
\* totalMonthlyEMI is the default currentEMI, currentFOIR and
\* availableEMICapacity follow from the default salary and maxFOIR, and
\* salaryProjections has its 10 entries
C26_ResetDataLeavesDerivedStateConsistent ==
  LET after   == Last(resetData(State), State)
      profile == DEFAULT_USER_PROFILE
      metrics == after.currentMetrics
  IN /\ after.userProfile = profile
     /\ after.plots = <<>>
     /\ after.timelineEvents = <<>>
     /\ metrics.totalMonthlyEMI = profile.currentEMI
     /\ metrics.currentFOIR
          = Mul(Div(profile.currentEMI, profile.currentSalary), R(100))
     /\ metrics.availableEMICapacity
          = Sub(Div(Mul(profile.currentSalary, profile.maxFOIR), R(100)),
                profile.currentEMI)
     /\ Len(after.salaryProjections) = 10


\* the ids of a collection
IdsOf(seq) == {seq[i].id : i \in DOMAIN seq}

\* a sequence without its k-th element
Without(seq, k) == [i \in 1..(Len(seq) - 1) |-> IF i < k THEN seq[i] ELSE seq[i + 1]]

\* the operation made its set calls without an error, and after it the two
\* collections are the given ones
Leaves(sets, ps, events) ==
  /\ sets # <<>>
  /\ Last(sets, State).plots = ps
  /\ Last(sets, State).timelineEvents = events

KeepsPlotSide(sets) ==
  \A i \in DOMAIN sets :
    /\ sets[i].userProfile = userProfile
    /\ sets[i].plots = plots
    /\ sets[i].currentMetrics = currentMetrics
    /\ sets[i].salaryProjections = salaryProjections

\* after every set call of the operation, the timeline events are as before
KeepsTimeline(sets) == \A i \in DOMAIN sets : sets[i].timelineEvents = timelineEvents

\* C28: add, update and deleteTimelineEvent and the actions setActiveTab,
\* setMobileNavOpen and setLoading leave userProfile, plots, currentMetrics
\* and salaryProjections unchanged, and addPlot, updatePlot and deletePlot
\* leave timelineEvents unchanged, also when an event names the deleted plot
C28_CollectionsAreIndependent ==
  /\ \A event \in EventInputs : KeepsPlotSide(addTimelineEvent(State, event))
  /\ \A id \in IdArgs(timelineEvents) :
       /\ KeepsPlotSide(deleteTimelineEvent(State, id))
       /\ \A updates \in EventUpdates :
            KeepsPlotSide(updateTimelineEvent(State, id, updates))
  /\ \A tab \in Tabs : KeepsPlotSide(setActiveTab(State, tab))
  /\ \A flag \in BOOLEAN :
       /\ KeepsPlotSide(setMobileNavOpen(State, flag))
       /\ KeepsPlotSide(setLoading(State, flag))
  /\ \A plotData \in PlotInputs : KeepsTimeline(addPlot(State, plotData))
  /\ \A id \in IdArgs(plots) :
       /\ KeepsTimeline(deletePlot(State, id))
       /\ \A updates \in PlotUpdates : KeepsTimeline(updatePlot(State, id, updates))

\* deletePlot has removed a plot that an event names: the event is still
\* there, naming a plot that no longer exists
C28_Witness ==
  /\ plots # <<>>
  /\ \E i \in DOMAIN timelineEvents :
       /\ timelineEvents[i].plotId # 0
       /\ timelineEvents[i].plotId \notin IdsOf(plots)
  /\ \E i \in DOMAIN timelineEvents : timelineEvents[i].plotId \in IdsOf(plots)


\* C29: for the same principal, interestRate and tenure the store's
\* calculateLoanEMI returns what the utility calculateEMI returns: the same
\* monthlyEMI, totalInterest and totalAmount, and a yearlyBreakdown of the same
\* length whose entries agree on year, beginningBalance, payment, principal,
\* interest and endingBalance
C29_LoanEMIAgreesWithCalculateEMI ==
  Returned("calculateLoanEMI") =>
    LET store   == call.result[1]
        utility == calculateEMI(call.args[1], call.args[2], call.args[3])
    IN /\ \A f \in {"monthlyEMI", "totalInterest", "totalAmount"} :
            store[f] = utility[f]
       /\ Len(store.yearlyBreakdown) = Len(utility.yearlyBreakdown)
       /\ \A i \in DOMAIN store.yearlyBreakdown :
            \A f \in {"year", "beginningBalance", "payment", "principal",
                      "interest", "endingBalance"} :
              store.yearlyBreakdown[i][f] = utility.yearlyBreakdown[i][f]

\* the store's schedule of a loan of 4 over 2 years: two entries, 12 payments
\* each, as the utility's
C29_Witness ==
  /\ Returned("calculateLoanEMI")
  /\ call.args = <<R(4), R(1200), R(2)>>
  /\ call.result[1].monthlyEMI = R(4)
  /\ Len(call.result[1].yearlyBreakdown) = 2
  /\ call.result[1].yearlyBreakdown[2].payment
       = Mul(R(12), Div(R(4 * 16777216), R(16777215)))
  /\ call.result[1].yearlyBreakdown
       = calculateEMI(R(4), R(1200), R(2)).yearlyBreakdown


\* C30: calculateOptimalDownPayment's search loop exits for every input, a
\* totalCost of 0 and an EMI ceiling monthlyIncome * maxFOIR / 100 <= 0
\* included: it never makes more than about 101 passes (102 allowed here)
C30_DownPaymentSearchExits ==
  (call # Null /\ call.fn = "calculateOptimalDownPayment") => call.iterations <= 102
====
